---- MODULE Spec2Model ----
(***************************************************************************)
(* Market-data ingestion and repair engine of simple-bot: the candle store *)
(* (packages/database/db.py, schema.py), the live candle writer            *)
(* (packages/websocket/websocket.py), the paginated range fetcher and the  *)
(* backfill controller (apps/backfiller/main.py).                          *)
(*                                                                         *)
(* Time unit.  The code counts time in milliseconds since the epoch; the   *)
(* model counts it in minutes (one unit = 60000 ms), so that the epoch     *)
(* values of "now" and of the 2017 floor fit the checker's integers.  All  *)
(* entries of TIMEFRAME_MS are whole minutes, so the arithmetic of the     *)
(* code (differences, multiples of tf_ms, comparisons) is unchanged.       *)
(***************************************************************************)
EXTENDS Integers, Sequences, FiniteSets, TLC

VARIABLES
    \* ---- the SQLite database file --------------------------------------
    tables,          \* names of the tables that exist in the database
    store,           \* rows of ohlcv_data
    unfillable,      \* rows of unfillable_gaps
    \* ---- the exchange --------------------------------------------------
    source,          \* the candles the exchange holds for the series
    \* ---- one invocation of Backfiller._fetch_range ---------------------
    fetch,           \* its arguments, its local variables and its position
    \* ---- history (not program state) -----------------------------------
    direct,          \* the latest direct store call: last_batch (its batch
                     \* when it was insert_ohlcv_batch, <<>> otherwise),
                     \* last_rowcount (the value it returned), repeat_call
                     \* (it repeated the call before it)
    mark_calls,      \* argument tuples mark_unfillable_gap was called with
    trace,           \* what the current _fetch_range invocation has done
    \* ---- one Backfiller and its runs of backfill() ---------------------
    bf,              \* arguments, local variables and position of backfill
    repair_log,      \* history: the gaps backfill marked unfillable, each
                     \* with the page requests its repair attempt issued
    history,         \* history: the runs of backfill in order, the last
                     \* entry being the run in progress or the latest one
    \* ---- one WebSocketManager and its watch tasks ----------------------
    ws,              \* running, the kind of db_connection, candle_callback
    tasks,           \* position of each watch task
    streams,         \* rows of ticker_data, orderbook_data, trades_stream
    live_log,        \* history: what the watch tasks received and did
    \* ---- one call of backfill_multiple or populate_data ----------------
    multi,           \* its list of series, its position in the list and
                     \* the series it has attempted so far
    \* ---- one TradingRuntime with its ExecutionManager and strategy ----
    execution,       \* mode, kind of db, position, and a history of the
                     \* calls of execute_signal
    strategy,        \* the candle history of each timeframe
    runtime          \* running, the position of run() and of each
                     \* shutdown(), and how often the teardown ran

vars == <<tables, store, unfillable, source, fetch, direct, mark_calls, trace,
          bf, repair_log, history, ws, tasks, streams, live_log, multi,
          execution, strategy, runtime>>

\* The variables of the trader.
traderVars == <<execution, strategy, runtime>>

\* The variables of the live path.
liveVars == <<ws, tasks, streams, live_log>>

\* What a step of _fetch_range leaves alone besides the candle table and its
\* own variables, and what a direct store call leaves alone outside the
\* database.
outsideFetch ==
    <<tables, unfillable, source, direct, mark_calls, bf, repair_log, history,
      liveVars, multi, traderVars>>
outsideStore ==
    <<source, fetch, trace, bf, repair_log, history, liveVars, multi, traderVars>>

(***************************************************************************)
(* Values                                                                  *)
(***************************************************************************)

\* An Optional[int] of the code is a sequence here: <<>> is Python's None
\* (SQL's NULL), <<x>> is the integer x.
None == <<>>
Some(x) == <<x>>

\* Python truthiness of an Optional[int]: None and 0 are both false.
Truthy(x) == x # None /\ x # Some(0)

\* apps/backfiller/main.py TIMEFRAME_MS, in minutes; the timeframes the
\* model uses.  A timeframe outside the table has no entry (dict.get gives
\* None).
TIMEFRAME_MS == [tf \in {"1m", "5m"} |-> IF tf = "1m" THEN 1 ELSE 5]

\* open, high, low, close, volume of the candles in flight.
OHLCV1 == <<100, 110, 90, 105, 7>>
OHLCV2 == <<105, 120, 100, 115, 9>>
\* A payload with high below low and a negative volume.
OHLCV_INVERTED == <<100, 90, 110, 105, -1>>

\* A candle as ccxt returns it: [timestamp, open, high, low, close, volume].
Candle(ts, v) == <<ts>> \o v

\* The dict _fetch_range builds for one candle (main.py 240-250), which is
\* also the parameter tuple of the INSERT statements.
OhlcvRow(exchange, symbol, timeframe, c) ==
    [exchange |-> exchange, symbol |-> symbol, timeframe |-> timeframe,
     timestamp |-> c[1], open |-> c[2], high |-> c[3], low |-> c[4],
     close |-> c[5], volume |-> c[6]]

(***************************************************************************)
(* Schema (schema.py) and database initialisation (db.py)                  *)
(***************************************************************************)

\* The tables the statements of DatabaseManager._initialize_database
\* create.  The table unfillable_gaps, which is_unfillable_gap and
\* mark_unfillable_gap use, is created nowhere in the program.
InitializedTables ==
    {"ohlcv_data", "ticker_data", "strategy_metadata", "trades",
     "positions", "signals", "indicator_cache"}

\* Executing schema.py: ALL_INDEXES (lines 224-232) adds OHLCV_INDEXES, a
\* name the module never binds (line 34 binds CREATE_OHLCV_INDEXES), so
\* "import schema" raises NameError.
ImportSchema == "NameError"

\* DatabaseManager.__init__ on the database file: None for a missing file,
\* Some(the tables of the file) for an existing one.  A missing file is
\* initialised, which starts with "import schema"; the exception leaves the
\* constructor and there is no DatabaseManager (None).  An existing file is
\* used as it is.
DatabaseManagerInit(file) ==
    IF file = None
    THEN (IF ImportSchema = "NameError" THEN None ELSE Some(InitializedTables))
    ELSE file

\* The key of UNIQUE(exchange, symbol, timeframe, timestamp) of ohlcv_data.
OhlcvUniqueKeyNoTimestamp(r) == <<r.exchange, r.symbol, r.timeframe, r.close>>
OhlcvUniqueKey(r) == <<r.exchange, r.symbol, r.timeframe, r.timestamp>>

\* The rows of the table that conflict with a new row under the constraint.
Conflicts(st, row) == {r \in st : OhlcvUniqueKey(r) = OhlcvUniqueKey(row)}

(***************************************************************************)
(* DatabaseManager (packages/database/db.py)                               *)
(***************************************************************************)

\* One INSERT OR IGNORE INTO ohlcv_data: the row is added unless it conflicts
\* with a stored row; the result is the new table and sqlite3_changes().
InsertOrIgnore(st, row) ==
    IF Conflicts(st, row) # {}
    THEN [store |-> st, changes |-> 0]
    ELSE [store |-> st \cup {row}, changes |-> 1]

\* cursor.executemany of the INSERT OR IGNORE over data[i..], in order.  No
\* statement removes a row, so the statement for data[k] is ignored exactly
\* when a row stored before the call, or an earlier row of data, has its key;
\* cursor.rowcount is the sum of the changes of the statements.
ExecuteKeyed(st, data, keys, i) ==
    LET Inserts(k) ==
            /\ InsertOrIgnore(st, data[k]).changes = 1
            /\ \A j \in i..(k - 1) : keys[j] # keys[k]
        done == {k \in i..Len(data) : Inserts(k)}
    IN  [store |-> st \cup {data[k] : k \in done},
         rowcount |-> Cardinality(done)]
ExecuteMany(st, data, i) ==
    ExecuteKeyed(st, data, [k \in 1..Len(data) |-> OhlcvUniqueKey(data[k])], i)

\* insert_ohlcv_batch(data): the new content of ohlcv_data and the returned
\* number of inserted records.
insert_ohlcv_batch_len(st, data) ==
    [store |-> ExecuteMany(st, data, 1).store, rowcount |-> Len(data)]
insert_ohlcv_batch(st, data) == ExecuteMany(st, data, 1)

\* The stored timestamps of one series.
SeriesTimestamps(st, exchange, symbol, timeframe) ==
    {r.timestamp : r \in {x \in st : /\ x.exchange = exchange
                                      /\ x.symbol = symbol
                                      /\ x.timeframe = timeframe}}

Min(S) == CHOOSE x \in S : \A y \in S : x <= y
\* The greatest element is the negation of the least negation.
Max(S) == 0 - Min({0 - x : x \in S})

\* get_latest_timestamp: SELECT MAX(timestamp), and
\* "result['latest'] if result['latest'] else None".
get_latest_timestamp(st, exchange, symbol, timeframe) ==
    LET S      == SeriesTimestamps(st, exchange, symbol, timeframe)
        latest == IF S = {} THEN None ELSE Some(Max(S))
    IN  IF Truthy(latest) THEN latest ELSE None

\* get_earliest_timestamp: SELECT MIN(timestamp), and
\* "result['earliest'] if result['earliest'] else None".
get_earliest_timestamp(st, exchange, symbol, timeframe) ==
    LET S        == SeriesTimestamps(st, exchange, symbol, timeframe)
        earliest == IF S = {} THEN None ELSE Some(Min(S))
    IN  IF Truthy(earliest) THEN earliest ELSE None

\* get_data_count: SELECT COUNT(*).
get_data_count(st, exchange, symbol, timeframe) ==
    Cardinality(SeriesTimestamps(st, exchange, symbol, timeframe))

\* ORDER BY timestamp: the ascending sequence of a set of timestamps.
\* The timestamps of S, all within lo..hi, in ascending order: those of the
\* lower half of the interval, then those of the upper half.
RECURSIVE AscendingIn(_, _, _)
AscendingIn(S, lo, hi) ==
    IF S = {} THEN <<>>
    ELSE IF lo = hi THEN <<lo>>
    ELSE LET mid == lo + ((hi - lo) \div 2)
         IN  AscendingIn({t \in S : t <= mid}, lo, mid)
                 \o AscendingIn({t \in S : t > mid}, mid + 1, hi)

Ascending(S) == IF S = {} THEN <<>> ELSE AscendingIn(S, Min(S), Max(S))

\* LEAD(timestamp) OVER (ORDER BY timestamp): the next stored timestamp, NULL
\* for the last row.
Lead(S, t) ==
    IF {u \in S : u > t} = {} THEN None ELSE Some(Min({u \in S : u > t}))

\* LIMIT 100 of find_gaps.
GAP_LIMIT == 100

\* The WHERE clause of find_gaps: next_ts - ts > ? with tf_ms * 2 bound to
\* the parameter (a NULL next_ts never satisfies it).
IsGapRowOneSpacing(S, t, tf_ms) ==
    Lead(S, t) # None /\ Lead(S, t)[1] - t > tf_ms
IsGapRow(S, t, tf_ms) ==
    Lead(S, t) # None /\ Lead(S, t)[1] - t > tf_ms * 2

\* find_gaps(exchange, symbol, timeframe, tf_ms): the (gap_start, gap_end)
\* rows in the order of the scan, at most GAP_LIMIT of them.
find_gaps(st, exchange, symbol, timeframe, tf_ms) ==
    LET S    == SeriesTimestamps(st, exchange, symbol, timeframe)
        scan == Ascending({t \in S : IsGapRow(S, t, tf_ms)})
        all  == [i \in 1..Len(scan) |-> <<scan[i], Lead(S, scan[i])[1]>>]
    IN  SubSeq(all, 1, IF Len(all) < GAP_LIMIT THEN Len(all) ELSE GAP_LIMIT)

\* A row of unfillable_gaps.
GapRow(exchange, symbol, timeframe, gap_start, gap_end) ==
    [exchange |-> exchange, symbol |-> symbol, timeframe |-> timeframe,
     gap_start |-> gap_start, gap_end |-> gap_end]

\* is_unfillable_gap: SELECT COUNT(*) ... > 0; a missing table raises
\* sqlite3.OperationalError, which the method catches and answers False.
is_unfillable_gap(tbls, unf, exchange, symbol, timeframe, gap_start, gap_end) ==
    /\ "unfillable_gaps" \in tbls
    /\ Cardinality({g \in unf :
           g = GapRow(exchange, symbol, timeframe, gap_start, gap_end)}) > 0

\* mark_unfillable_gap: INSERT OR IGNORE INTO unfillable_gaps; a missing
\* table raises sqlite3.OperationalError, which the method catches and logs.
\* The table's definition is not part of the program: a row that is already
\* stored is taken to be ignored, as the statement's OR IGNORE expects.
mark_unfillable_gap(tbls, unf, exchange, symbol, timeframe, gap_start, gap_end) ==
    IF "unfillable_gaps" \in tbls
    THEN unf \cup {GapRow(exchange, symbol, timeframe, gap_start, gap_end)}
    ELSE unf

(***************************************************************************)
(* WebSocketManager (packages/websocket/websocket.py)                      *)
(***************************************************************************)

\* _store_ohlcv on a sqlite3 connection (the db_connection that example_usage of
\* websocket.py passes): INSERT OR REPLACE INTO ohlcv_data deletes the
\* conflicting rows and inserts the new one.
store_ohlcv_or_ignore(st, row) == InsertOrIgnore(st, row).store
store_ohlcv(st, row) == (st \ Conflicts(st, row)) \cup {row}

(***************************************************************************)
(* The exchange (ccxt): fetch_ohlcv(symbol, timeframe, since, limit)       *)
(***************************************************************************)

\* limit=1000 of the fetch_ohlcv call.
PAGE_LIMIT == 1000

\* The page an exchange that answers from its holdings returns: its candles
\* with timestamp >= since, oldest first, at most limit of them.
HonestPage(held, since, limit) ==
    LET newer == {x \in held : x[1] >= since}
        ts    == Ascending({c[1] : c \in newer})
        n     == IF Len(ts) < limit THEN Len(ts) ELSE limit
    IN  [i \in 1..n |-> CHOOSE c \in newer : c[1] = ts[i]]

(***************************************************************************)
(* Backfiller._fetch_range (apps/backfiller/main.py 172-277)               *)
(***************************************************************************)

\* max_iterations
MAX_ITERATIONS == 10000
\* since = end_ts - (500 * tf_ms)
INITIAL_LOOKBACK == 500
\* since -= (1000 * tf_ms) after an empty page
EMPTY_PAGE_STEP == 1000

IdleFetch ==
    [pc |-> "idle", exchange |-> "", symbol |-> "", timeframe |-> "",
     tf_ms |-> 0, start_ts |-> 0, end_ts |-> 0, total_inserted |-> 0,
     consecutive_empty |-> 0, consecutive_no_inserts |-> 0, iterations |-> 0,
     last_oldest_ts |-> None, since |-> 0]

\* Lines 186-195: the local variables at the first test of the loop.
FetchRangeEntry(exchange, symbol, timeframe, tf_ms, start_ts, end_ts) ==
    [pc |-> "loop", exchange |-> exchange, symbol |-> symbol,
     timeframe |-> timeframe, tf_ms |-> tf_ms, start_ts |-> start_ts,
     end_ts |-> end_ts, total_inserted |-> 0, consecutive_empty |-> 0,
     consecutive_no_inserts |-> 0, iterations |-> 0, last_oldest_ts |-> None,
     since |-> end_ts - (INITIAL_LOOKBACK * tf_ms)]

\* while iterations < max_iterations
LoopConditionForever(fr) == TRUE
LoopCondition(fr) == fr.iterations < MAX_ITERATIONS

\* if since <= start_ts: break
ReachedStart(fr) == fr.since <= fr.start_ts

\* Line 228: the page's oldest timestamp is not older than the previous
\* page's.
ConvergedOnlyIfNewer(fr, ohlcv) ==
    fr.last_oldest_ts # None /\ ohlcv[1][1] > fr.last_oldest_ts[1]
Converged(fr, ohlcv) ==
    fr.last_oldest_ts # None /\ ohlcv[1][1] >= fr.last_oldest_ts[1]

\* Lines 234-250: the rows of the page that lie in [start_ts, end_ts].
PrepareBatchUnfiltered(fr, ohlcv) ==
    [i \in 1..Len(ohlcv) |-> OhlcvRow(fr.exchange, fr.symbol, fr.timeframe, ohlcv[i])]
PrepareBatch(fr, ohlcv) ==
    LET InRange(c) == fr.start_ts <= c[1] /\ c[1] <= fr.end_ts
        kept == SelectSeq(ohlcv, InRange)
    IN  [i \in 1..Len(kept) |->
            OhlcvRow(fr.exchange, fr.symbol, fr.timeframe, kept[i])]

\* Lines 215-222: one iteration that received an empty page.
AfterEmptyPageOneSpacing(fr) ==
    LET n == fr.consecutive_empty + 1
    IN  IF n >= 3
        THEN [fr EXCEPT !.iterations = @ + 1, !.consecutive_empty = n,
                        !.pc = "returned"]
        ELSE [fr EXCEPT !.iterations = @ + 1, !.consecutive_empty = n,
                        !.since = @ - fr.tf_ms]
AfterEmptyPage(fr) ==
    LET n == fr.consecutive_empty + 1
    IN  IF n >= 3
        THEN [fr EXCEPT !.iterations = @ + 1, !.consecutive_empty = n,
                        !.pc = "returned"]
        ELSE [fr EXCEPT !.iterations = @ + 1, !.consecutive_empty = n,
                        !.since = @ - (EMPTY_PAGE_STEP * fr.tf_ms)]

\* Lines 253-261: consecutive_no_inserts after a page whose batch made
\* insert_ohlcv_batch return inserted; an empty batch is not inserted and
\* leaves the count as it is.
NoInsertsAfterAnyPage(consecutive_no_inserts, batch, inserted) ==
    IF inserted > 0 THEN 0 ELSE consecutive_no_inserts + 1
NoInsertsAfter(consecutive_no_inserts, batch, inserted) ==
    IF batch = <<>> THEN consecutive_no_inserts
    ELSE IF inserted > 0 THEN 0
    ELSE consecutive_no_inserts + 1

\* The timestamps of the rows of a batch.
BatchTimestamps(batch) == {batch[i].timestamp : i \in 1..Len(batch)}

\* Lines 270-272: batch_size = len(ohlcv) and the cursor of the next page,
\* since = oldest_ts - (batch_size * tf_ms).
NextCursorSkipping(oldest_ts, batch_size, tf_ms) ==
    oldest_ts - (2 * batch_size * tf_ms)
NextCursor(oldest_ts, batch_size, tf_ms) == oldest_ts - (batch_size * tf_ms)

\* Lines 224-275: one iteration that received the non-empty page ohlcv, on
\* the table content st: the local variables and the table afterwards, and
\* the batch that was handed to insert_ohlcv_batch.
AfterPage(fr, st, ohlcv) ==
    LET oldest_ts == ohlcv[1][1]
        batch     == PrepareBatch(fr, ohlcv)
        r         == IF batch # <<>> THEN insert_ohlcv_batch(st, batch)
                     ELSE [store |-> st, rowcount |-> 0]
        no_ins    == NoInsertsAfter(fr.consecutive_no_inserts, batch, r.rowcount)
        f1        == [fr EXCEPT !.iterations = @ + 1, !.consecutive_empty = 0]
        f2        == [f1 EXCEPT !.last_oldest_ts = Some(oldest_ts),
                                !.total_inserted = @ + r.rowcount,
                                !.consecutive_no_inserts = no_ins]
    IN  IF Converged(fr, ohlcv)
        THEN [fetch |-> [f1 EXCEPT !.pc = "returned"], store |-> st,
              batch |-> <<>>]
        ELSE IF batch # <<>> /\ r.rowcount = 0 /\ no_ins >= 3
        THEN [fetch |-> [f2 EXCEPT !.pc = "returned"], store |-> r.store,
              batch |-> batch]
        ELSE [fetch |-> [f2 EXCEPT !.since = NextCursor(oldest_ts, Len(ohlcv), fr.tf_ms)],
              store |-> r.store, batch |-> batch]

\* What an invocation has done so far: the page requests it issued, the
\* network errors among them, the timestamps it handed to
\* insert_ohlcv_batch, whether a page held a candle outside the window,
\* whether every answer so far was the page an exchange answering from its
\* holdings gives, the first page received and whether every answer so far
\* was that same non-empty page, whether the window held no stored candle
\* of the series at the call, whether a request failed with an exchange
\* error, and whether the last page response has not been followed by the
\* pause of line 275, sleep(self.exchange.rateLimit / 1000).
NoTrace ==
    [requests |-> 0, net_errors |-> 0, written |-> {}, overrun |-> FALSE,
     honest |-> TRUE, first_page |-> <<>>, same_page |-> TRUE,
     window_empty |-> TRUE, exchange_error |-> FALSE,
     pause_due |-> FALSE]

EntryTrace(st, exchange, symbol, timeframe, start_ts, end_ts) ==
    [NoTrace EXCEPT !.window_empty =
        {t \in SeriesTimestamps(st, exchange, symbol, timeframe) :
            start_ts <= t /\ t <= end_ts} = {}]

\* The pages an exchange may return that are not its holdings from since:
\* a page that overruns the top of the window, pages of older candles, a
\* page that straddles a lower bound, and a page whose candle has inverted
\* prices.
RoguePage(tss) == [i \in 1..Len(tss) |-> Candle(tss[i], OHLCV1)]
RoguePages ==
    {RoguePage(<<4999, 5000, 5001>>), RoguePage(<<4980>>), RoguePage(<<4970>>),
     RoguePage(<<3999, 4000>>), <<Candle(4985, OHLCV_INVERTED)>>}

Responses == {HonestPage(source, fetch.since, PAGE_LIMIT)} \cup RoguePages \cup {<<>>}

\* The loop is at its top and goes on to call fetch_ohlcv.
Requesting ==
    fetch.pc = "loop" /\ LoopCondition(fetch) /\ ~ReachedStart(fetch)

\* Line 197: the iteration cap ends the loop; return total_inserted.
FetchCapReached ==
    /\ fetch.pc = "loop"
    /\ ~LoopCondition(fetch)
    /\ fetch' = [fetch EXCEPT !.pc = "returned"]
    /\ UNCHANGED <<store, trace, outsideFetch>>

\* Lines 198-202: the cursor has reached the start of the window.
FetchReachedStart ==
    /\ fetch.pc = "loop"
    /\ LoopCondition(fetch)
    /\ ReachedStart(fetch)
    /\ fetch' = [fetch EXCEPT !.iterations = @ + 1, !.pc = "returned"]
    /\ UNCHANGED <<store, trace, outsideFetch>>

FetchNetworkErrorAsEmptyPage(retries) ==
    /\ Requesting
    /\ trace.net_errors < retries
    /\ fetch' = AfterEmptyPage(fetch)
    /\ trace' = [trace EXCEPT !.requests = @ + 1, !.net_errors = @ + 1,
                              !.honest = FALSE, !.same_page = FALSE]
    /\ UNCHANGED <<store, outsideFetch>>

\* Lines 207-210: fetch_ohlcv raises ccxt.NetworkError; sleep and continue.
\* The model lets at most retries requests of one invocation fail so.
FetchNetworkError(retries) ==
    /\ Requesting
    /\ trace.net_errors < retries
    /\ fetch' = [fetch EXCEPT !.iterations = @ + 1]
    /\ trace' = [trace EXCEPT !.requests = @ + 1, !.net_errors = @ + 1,
                              !.honest = FALSE, !.same_page = FALSE]
    /\ UNCHANGED <<store, outsideFetch>>

FetchExchangeErrorRetried ==
    /\ Requesting
    /\ fetch' = [fetch EXCEPT !.iterations = @ + 1]
    /\ trace' = [trace EXCEPT !.requests = @ + 1, !.honest = FALSE,
                              !.same_page = FALSE, !.exchange_error = TRUE]
    /\ UNCHANGED <<store, outsideFetch>>

\* Lines 211-213 and 277: fetch_ohlcv raises ccxt.ExchangeError; break, and
\* return total_inserted.
FetchExchangeError ==
    /\ Requesting
    /\ fetch' = [fetch EXCEPT !.iterations = @ + 1, !.pc = "returned"]
    /\ trace' = [trace EXCEPT !.requests = @ + 1, !.honest = FALSE,
                              !.same_page = FALSE, !.exchange_error = TRUE]
    /\ UNCHANGED <<store, outsideFetch>>

\* Lines 215-222: fetch_ohlcv returns an empty page.
FetchEmptyPage ==
    /\ Requesting
    /\ fetch' = AfterEmptyPage(fetch)
    /\ trace' = [trace EXCEPT
           !.requests = @ + 1,
           !.honest = @ /\ HonestPage(source, fetch.since, PAGE_LIMIT) = <<>>,
           !.same_page = FALSE,
           !.pause_due = TRUE]
    /\ UNCHANGED <<store, outsideFetch>>

\* The state after the iteration with result r on the page ohlcv.
FetchPageResult(r, ohlcv) ==
    /\ fetch' = r.fetch
    /\ store' = r.store
    /\ trace' = [trace EXCEPT
           !.requests = @ + 1,
           !.written = @ \cup BatchTimestamps(r.batch),
           !.overrun = @ \/ \E i \in 1..Len(ohlcv) :
                             ohlcv[i][1] < fetch.start_ts
                                 \/ ohlcv[i][1] > fetch.end_ts,
           !.honest = @ /\ ohlcv = HonestPage(source, fetch.since, PAGE_LIMIT),
           !.first_page = IF @ = <<>> THEN ohlcv ELSE @,
           !.same_page = @ /\ (trace.first_page = <<>>
                                  \/ trace.first_page = ohlcv),
           !.pause_due = (r.fetch.pc = "returned")]
\* Lines 224-275: fetch_ohlcv returns the non-empty page ohlcv.
FetchPage(ohlcv) ==
    /\ Requesting
    /\ ohlcv # <<>>
    /\ FetchPageResult(AfterPage(fetch, store, ohlcv), ohlcv)
    /\ UNCHANGED outsideFetch

(***************************************************************************)
(* Backfiller.backfill, the gap filter of phase 2 (main.py 134-140)        *)
(***************************************************************************)

\* gaps = [(start, end) for start, end in all_gaps if not is_unfillable_gap]
FillableGapsUnfiltered(tbls, unf, st, exchange, symbol, timeframe, tf_ms) ==
    find_gaps(st, exchange, symbol, timeframe, tf_ms)
FillableGaps(tbls, unf, st, exchange, symbol, timeframe, tf_ms) ==
    LET Keep(g) == ~is_unfillable_gap(tbls, unf, exchange, symbol, timeframe,
                                      g[1], g[2])
    IN  SelectSeq(find_gaps(st, exchange, symbol, timeframe, tf_ms), Keep)

(***************************************************************************)
(* Backfiller.backfill (apps/backfiller/main.py 73-170)                    *)
(***************************************************************************)

\* self.exchange_name of the one Backfiller.
EXCHANGE == "mexc"
\* timedelta(days=1), in minutes.
MINUTES_PER_DAY == 1440
\* int(datetime(2017, 1, 1).timestamp() * 1000), in minutes (UTC).
ORIGIN_2017 == 24720480

\* The entry of history for a run that starts: its arguments, the store
\* and the memo it found, the window of phase 1, the lower bounds of the
\* windows handed to _fetch_range, and what is filled in as the run goes on.
NewRun(symbol, timeframe, days, now, earliest_ts, target_start) ==
    [symbol |-> symbol, timeframe |-> timeframe, days |-> days, now |-> now,
     store0 |-> store, unfillable0 |-> unfillable,
     earliest_ts |-> earliest_ts, target_start |-> target_start,
     starts |-> {target_start},
     phase1_done |-> FALSE, phase1_inserted |-> 0, honest |-> TRUE,
     gaps |-> <<>>, failed |-> {}, requested |-> {}, wrote |-> FALSE,
     outcome |-> "running"]

\* The entry of the run in progress after a fetch of it has returned:
\* whether the exchange answered every request of the run from its
\* holdings so far, and the gaps whose repair issued a page request.
AfterFetch(h) ==
    [h EXCEPT ![Len(h)].honest = @ /\ trace.honest,
              ![Len(h)].requested =
                  IF bf.pc = "phase2" /\ trace.requests > 0
                  THEN @ \cup {bf.gaps[bf.i]} ELSE @]

IdleBackfill ==
    [pc |-> "idle", symbol |-> "", timeframe |-> "", days |-> None,
     tf_ms |-> 0, latest_ts |-> None, earliest_ts |-> None,
     existing_count |-> 0, total_inserted |-> 0, now |-> 0, gaps |-> <<>>,
     i |-> 0, failed_gaps |-> <<>>, runs |-> 0]

\* Lines 106-129: the lower bound of the window phase 1 fetches.
Phase1TargetStart(days, earliest_ts, tf_ms, now) ==
    IF Truthy(days)
    THEN LET since_ts == now - days[1] * MINUTES_PER_DAY
         IN  IF Truthy(earliest_ts)
             THEN (IF since_ts >= earliest_ts[1] THEN since_ts ELSE earliest_ts[1])
             ELSE since_ts
    ELSE IF Truthy(earliest_ts)
    THEN earliest_ts[1] - (tf_ms * 10)
    ELSE ORIGIN_2017

\* Lines 88-91: a timeframe without an entry in TIMEFRAME_MS; backfill logs
\* and returns.
BackfillUnknownTimeframe(symbol, timeframe, max_runs) ==
    /\ bf.pc \in {"idle", "done"}
    /\ bf.runs < max_runs
    /\ timeframe \notin DOMAIN TIMEFRAME_MS
    /\ bf' = [IdleBackfill EXCEPT !.pc = "done", !.symbol = symbol,
                                  !.timeframe = timeframe, !.now = bf.now,
                                  !.runs = bf.runs + 1]
    /\ UNCHANGED <<tables, store, unfillable, source, fetch, direct,
                   mark_calls, trace, repair_log, history,
                   liveVars, multi, traderVars>>

\* Lines 85-129 up to the first await: backfill(symbol, timeframe, days) at
\* the time now reads the store and starts the fetch of phase 1.
BackfillStart(symbol, timeframe, days, now, max_runs) ==
    /\ bf.pc \in {"idle", "done"}
    /\ bf.runs < max_runs
    /\ timeframe \in DOMAIN TIMEFRAME_MS
    /\ now >= bf.now
    /\ LET tf_ms        == TIMEFRAME_MS[timeframe]
           latest_ts    == get_latest_timestamp(store, EXCHANGE, symbol, timeframe)
           earliest_ts  == get_earliest_timestamp(store, EXCHANGE, symbol, timeframe)
           target_start == Phase1TargetStart(days, earliest_ts, tf_ms, now)
       IN  /\ bf' = [IdleBackfill EXCEPT
                  !.pc = "phase1", !.symbol = symbol, !.timeframe = timeframe,
                  !.days = days, !.tf_ms = tf_ms, !.latest_ts = latest_ts,
                  !.earliest_ts = earliest_ts,
                  !.existing_count =
                      get_data_count(store, EXCHANGE, symbol, timeframe),
                  !.now = now, !.runs = bf.runs + 1]
           /\ fetch' = FetchRangeEntry(EXCHANGE, symbol, timeframe, tf_ms,
                                       target_start, now)
           /\ trace' = EntryTrace(store, EXCHANGE, symbol, timeframe,
                                  target_start, now)
           /\ history' = Append(history,
                  NewRun(symbol, timeframe, days, now, earliest_ts,
                         target_start))
    /\ UNCHANGED <<tables, store, unfillable, source, direct, mark_calls,
                   repair_log,
                   liveVars, multi, traderVars>>

\* The fetch of gap number i of the list, or the end of backfill after the
\* last gap.
RepairGapOrFinish(b, i, h) ==
    IF i <= Len(b.gaps)
    THEN /\ bf' = [b EXCEPT !.pc = "phase2", !.i = i]
         /\ history' = [h EXCEPT ![Len(h)].starts = @ \cup {b.gaps[i][1]}]
         /\ fetch' = FetchRangeEntry(EXCHANGE, b.symbol, b.timeframe, b.tf_ms,
                                     b.gaps[i][1], b.gaps[i][2])
         /\ trace' = EntryTrace(store, EXCHANGE, b.symbol, b.timeframe,
                                b.gaps[i][1], b.gaps[i][2])
    ELSE /\ bf' = [b EXCEPT !.pc = "done"]
         /\ history' = [h EXCEPT ![Len(h)].outcome = "complete"]
         /\ fetch' = IdleFetch
         /\ trace' = NoTrace

\* Lines 112-146: the fetch of phase 1 has returned; phase 2 lists the gaps
\* when the series had data at the start of the run.
BackfillPhase1Done ==
    /\ bf.pc = "phase1"
    /\ fetch.pc = "returned"
    /\ LET b1 == [bf EXCEPT !.total_inserted = @ + fetch.total_inserted]
           b2 == [b1 EXCEPT !.gaps =
                     FillableGaps(tables, unfillable, store, EXCHANGE,
                                  bf.symbol, bf.timeframe, bf.tf_ms)]
           h1 == [AfterFetch(history) EXCEPT
                     ![Len(history)].phase1_done = TRUE,
                     ![Len(history)].phase1_inserted = fetch.total_inserted]
           h2 == [h1 EXCEPT ![Len(history)].gaps = b2.gaps]
       IN  IF bf.existing_count > 0
           THEN RepairGapOrFinish(b2, 1, h2)
           ELSE RepairGapOrFinish(b1, 1, h1)
    /\ UNCHANGED <<tables, store, unfillable, source, direct, mark_calls,
                   repair_log,
                   liveVars, multi, traderVars>>

BackfillGapUnfillableAborts ==
    /\ bf.pc = "phase2"
    /\ fetch.pc = "returned"
    /\ fetch.total_inserted = 0
    /\ LET g == bf.gaps[bf.i]
       IN  /\ unfillable' = mark_unfillable_gap(tables, unfillable, EXCHANGE,
                                bf.symbol, bf.timeframe, g[1], g[2])
           /\ mark_calls' = mark_calls \cup
                  {<<<<EXCHANGE, bf.symbol, bf.timeframe>>, g[1], g[2]>>}
           /\ repair_log' = repair_log \cup
                  {[gap_start |-> g[1], gap_end |-> g[2],
                    requests |-> trace.requests]}
           /\ RepairGapOrFinish([bf EXCEPT !.failed_gaps = Append(@, g)],
                                Len(bf.gaps) + 1,
                                [AfterFetch(history) EXCEPT
                                    ![Len(history)].failed = @ \cup {g}])
    /\ UNCHANGED <<tables, store, source, direct,
                   liveVars, multi, traderVars>>

\* Lines 152-158: the repair of a gap inserted nothing; the gap is marked
\* unfillable.
BackfillGapUnfillable ==
    /\ bf.pc = "phase2"
    /\ fetch.pc = "returned"
    /\ fetch.total_inserted = 0
    /\ LET g == bf.gaps[bf.i]
       IN  /\ unfillable' = mark_unfillable_gap(tables, unfillable, EXCHANGE,
                                bf.symbol, bf.timeframe, g[1], g[2])
           /\ mark_calls' = mark_calls \cup
                  {<<<<EXCHANGE, bf.symbol, bf.timeframe>>, g[1], g[2]>>}
           /\ repair_log' = repair_log \cup
                  {[gap_start |-> g[1], gap_end |-> g[2],
                    requests |-> trace.requests]}
           /\ RepairGapOrFinish([bf EXCEPT !.failed_gaps = Append(@, g)],
                                bf.i + 1,
                                [AfterFetch(history) EXCEPT
                                    ![Len(history)].failed = @ \cup {g}])
    /\ UNCHANGED <<tables, store, source, direct,
                   liveVars, multi, traderVars>>

\* Lines 152-160: the repair of a gap inserted candles.
BackfillGapFilled ==
    /\ bf.pc = "phase2"
    /\ fetch.pc = "returned"
    /\ fetch.total_inserted # 0
    /\ RepairGapOrFinish([bf EXCEPT !.total_inserted = @ + fetch.total_inserted],
                         bf.i + 1, AfterFetch(history))
    /\ UNCHANGED <<tables, store, unfillable, source, direct, mark_calls,
                   repair_log,
                   liveVars, multi, traderVars>>

\* The process dies in the middle of a run: the local variables of backfill
\* and _fetch_range are lost, the database keeps what was committed.
BackfillCrash ==
    /\ bf.pc \in {"phase1", "phase2"}
    /\ bf' = [IdleBackfill EXCEPT !.now = bf.now, !.runs = bf.runs]
    /\ fetch' = IdleFetch
    /\ trace' = NoTrace
    /\ history' = [AfterFetch(history) EXCEPT
           ![Len(history)].outcome = "crashed",
           ![Len(history)].wrote =
               bf.total_inserted + fetch.total_inserted > 0]
    /\ UNCHANGED <<tables, store, unfillable, source, direct, mark_calls,
                   repair_log,
                   liveVars, multi, traderVars>>

(***************************************************************************)
(* A run of backfill as a function of what it finds: the exchange answers  *)
(* every request from the holdings held, and nothing interrupts the run.   *)
(***************************************************************************)

\* _fetch_range from the local variables fr on the table content st, to its
\* return: the table content and total_inserted.
RECURSIVE FetchRangeRun(_, _, _)
FetchRangeRun(fr, st, held) ==
    IF ~LoopCondition(fr) \/ ReachedStart(fr)
    THEN [store |-> st, inserted |-> fr.total_inserted]
    ELSE LET ohlcv == HonestPage(held, fr.since, PAGE_LIMIT)
             e     == AfterEmptyPage(fr)
             r     == AfterPage(fr, st, ohlcv)
         IN  IF ohlcv = <<>>
             THEN (IF e.pc = "returned"
                   THEN [store |-> st, inserted |-> e.total_inserted]
                   ELSE FetchRangeRun(e, st, held))
             ELSE (IF r.fetch.pc = "returned"
                   THEN [store |-> r.store, inserted |-> r.fetch.total_inserted]
                   ELSE FetchRangeRun(r.fetch, r.store, held))

\* Phase 2 from gap number i of the list gaps on: the table content after
\* the last repair.
RECURSIVE RepairRun(_, _, _, _, _, _)
RepairRun(gaps, i, st, held, symbol, timeframe) ==
    IF i > Len(gaps)
    THEN st
    ELSE RepairRun(gaps, i + 1,
             FetchRangeRun(
                 FetchRangeEntry(EXCHANGE, symbol, timeframe,
                                 TIMEFRAME_MS[timeframe], gaps[i][1], gaps[i][2]),
                 st, held).store,
             held, symbol, timeframe)

\* backfill(symbol, timeframe, days) at the time now on the table content
\* st and the memo unf: the table content when it returns.
BackfillRun(st, unf, held, symbol, timeframe, days, now) ==
    LET tf_ms    == TIMEFRAME_MS[timeframe]
        earliest == get_earliest_timestamp(st, EXCHANGE, symbol, timeframe)
        target   == Phase1TargetStart(days, earliest, tf_ms, now)
        p1       == FetchRangeRun(
                        FetchRangeEntry(EXCHANGE, symbol, timeframe, tf_ms,
                                        target, now),
                        st, held)
        gaps     == IF get_data_count(st, EXCHANGE, symbol, timeframe) > 0
                    THEN FillableGaps(tables, unf, p1.store, EXCHANGE, symbol,
                                      timeframe, tf_ms)
                    ELSE <<>>
    IN  RepairRun(gaps, 1, p1.store, held, symbol, timeframe)

(***************************************************************************)
(* Backfiller.backfill_multiple (main.py 279-302) and populate_data        *)
(* (scripts/populate_db.py 61-114): one backfill per series of a list.     *)
(***************************************************************************)

\* No call is in progress.
IdleMulti ==
    [pc |-> "idle", caller |-> "", configs |-> <<>>, i |-> 0,
     attempted |-> <<>>, failed |-> {}, now |-> 0]

\* days = config.get('days', 30): a config without the key gives 30.
DEFAULT_DAYS == 30
ConfigDays(config) ==
    IF config.has_days THEN config.days ELSE Some(DEFAULT_DAYS)

\* The frame of a step of the list loop.
outsideMulti ==
    <<tables, unfillable, source, fetch, direct, mark_calls, trace, bf,
      repair_log, history, liveVars, traderVars>>

\* await backfiller.backfill_multiple(configs) at the time now.
BackfillMultipleCall(configs, now) ==
    /\ multi.pc = "idle"
    /\ multi' = [IdleMulti EXCEPT !.pc = "loop", !.caller = "backfill_multiple",
                                  !.configs = configs, !.i = 1, !.now = now]
    /\ UNCHANGED <<store, outsideMulti>>

\* populate_data(exchange, symbols, timeframes, days): the nested loops go
\* through the pairs symbol by symbol, every timeframe of a symbol in turn.
PopulateDataCall(symbols, timeframes, days, now) ==
    /\ multi.pc = "idle"
    /\ multi' = [IdleMulti EXCEPT
           !.pc = "loop", !.caller = "populate_data",
           !.configs =
               [k \in 1..(Len(symbols) * Len(timeframes)) |->
                   [symbol |-> symbols[((k - 1) \div Len(timeframes)) + 1],
                    timeframe |-> timeframes[((k - 1) % Len(timeframes)) + 1],
                    has_days |-> TRUE, days |-> days]],
           !.i = 1, !.now = now]
    /\ UNCHANGED <<store, outsideMulti>>

\* Phase 1 of backfill alone: the table content when its fetch returns.
BackfillPhase1Run(st, held, symbol, timeframe, days, now) ==
    LET tf_ms == TIMEFRAME_MS[timeframe]
    IN  FetchRangeRun(
            FetchRangeEntry(EXCHANGE, symbol, timeframe, tf_ms,
                Phase1TargetStart(days,
                    get_earliest_timestamp(st, EXCHANGE, symbol, timeframe),
                    tf_ms, now),
                now),
            st, held).store

\* The series of the list that is next.
NextConfig == multi.configs[multi.i]

\* The try block ends normally: backfill has run to its return (at once
\* for a timeframe without an entry in TIMEFRAME_MS); the loop goes on with
\* the next series.
MultiBackfillReturns ==
    /\ multi.pc = "loop"
    /\ multi.i <= Len(multi.configs)
    /\ store' = IF NextConfig.timeframe \in DOMAIN TIMEFRAME_MS
                THEN BackfillRun(store, unfillable, source, NextConfig.symbol,
                                 NextConfig.timeframe, ConfigDays(NextConfig),
                                 multi.now)
                ELSE store
    /\ multi' = [multi EXCEPT !.attempted = Append(@, NextConfig),
                              !.i = @ + 1]
    /\ UNCHANGED outsideMulti

\* "except Exception as e: logger.error(...)" followed by continue
\* (backfill_multiple) or by the end of the loop body (populate_data):
\* where the call is after the exception of one series.
AfterBackfillExceptionRaise == "aborted"
AfterBackfillException == "loop"

\* An exception leaves the try block: raised before backfill has written
\* (a database error at its first query, or in populate_data the
\* constructor of the Backfiller), or raised after phase 1.
MultiBackfillRaises(at) ==
    /\ multi.pc = "loop"
    /\ multi.i <= Len(multi.configs)
    /\ at = "phase1" => NextConfig.timeframe \in DOMAIN TIMEFRAME_MS
    /\ store' = IF at = "phase1"
                THEN BackfillPhase1Run(store, source, NextConfig.symbol,
                                       NextConfig.timeframe,
                                       ConfigDays(NextConfig), multi.now)
                ELSE store
    /\ multi' = [multi EXCEPT !.attempted = Append(@, NextConfig),
                              !.failed = @ \cup {multi.i},
                              !.i = @ + 1,
                              !.pc = AfterBackfillException]
    /\ UNCHANGED outsideMulti

\* The list is exhausted: the call returns.
MultiReturn ==
    /\ multi.pc = "loop"
    /\ multi.i > Len(multi.configs)
    /\ multi' = [multi EXCEPT !.pc = "done"]
    /\ UNCHANGED <<store, outsideMulti>>

(***************************************************************************)
(* WebSocketManager (packages/websocket/websocket.py)                      *)
(***************************************************************************)

\* The watch tasks of the one symbol: watch_ohlcv(symbol, '1m'),
\* watch_ticker, watch_order_book and watch_trades.
TaskIds == {"ohlcv", "ticker", "order_book", "trades"}
LIVE_SYMBOL == "BTC/USDT"
LIVE_TIMEFRAME == "1m"
\* orderbook_depth: int = 10
ORDERBOOK_DEPTH == 10

\* A task that does not exist: its position, and in the pause of the
\* except clause the kind of exception that was caught.
NoTask == [pc |-> "none", caught |-> "none"]

\* What has happened so far: the messages the exchange has delivered, the
\* awaited calls it has failed while the manager was running, and the last
\* list of candles watch_ohlcv has handled.
NoLiveLog == [pushes |-> 0, errors |-> 0, handled |-> None]

\* __init__ (lines 46-69): running is False, no callback, no exchange.
NewManager(db_kind) ==
    [running |-> FALSE, db_kind |-> db_kind, candle_callback |-> FALSE,
     phase |-> "new", enable_orderbook |-> FALSE, enable_trades |-> FALSE]

\* No WebSocketManager has been constructed.
LiveIdle ==
    /\ ws = NewManager("none")
    /\ tasks = [t \in TaskIds |-> NoTask]
    /\ streams = [ticker_data |-> {}, orderbook_data |-> {}, trades_stream |-> {}]
    /\ live_log = NoLiveLog

\* What a store call of the manager leaves alone besides the tables and the
\* task that makes it.
outsideLive ==
    <<tables, unfillable, source, fetch, direct, mark_calls, trace, bf,
      repair_log, history, multi, traderVars>>

\* self.db.execute(...) and self.db.commit() inside the try of a _store_*
\* method: with a sqlite3 connection the statement runs when its table
\* exists (and may still raise, a locked database for one); a
\* DatabaseManager has neither method, the call raises AttributeError.
\* Every exception is logged by the method and goes no further.
CanWrite(table) == ws.db_kind = "sqlite3" /\ table \in tables

\* register_candle_callback (lines 80-87).
RegisterCandleCallback ==
    /\ ws.phase = "new"
    /\ ~ws.candle_callback
    /\ ws' = [ws EXCEPT !.candle_callback = TRUE]
    /\ UNCHANGED <<store, tasks, streams, live_log, outsideLive>>

\* start (lines 402-403): running becomes True, connect is awaited.
Start(enable_orderbook, enable_trades) ==
    /\ ws.phase = "new"
    /\ ws.db_kind # "none"
    /\ ws' = [ws EXCEPT !.running = TRUE, !.phase = "connecting",
                        !.enable_orderbook = enable_orderbook,
                        !.enable_trades = enable_trades]
    /\ UNCHANGED <<store, tasks, streams, live_log, outsideLive>>

\* start (lines 406-424): connect has returned; one task per data kind is
\* created and start awaits them all.
StartConnected ==
    /\ ws.phase = "connecting"
    /\ ws' = [ws EXCEPT !.phase = "streaming"]
    /\ tasks' = [t \in TaskIds |->
           IF \/ t \in {"ohlcv", "ticker"}
              \/ (t = "order_book" /\ ws.enable_orderbook)
              \/ (t = "trades" /\ ws.enable_trades)
           THEN [NoTask EXCEPT !.pc = "created"]
           ELSE NoTask]
    /\ UNCHANGED <<store, streams, live_log, outsideLive>>

\* start (line 403): connect raises (the exchange name is no attribute of
\* ccxt.pro); start ends with the exception and no task exists.
StartConnectFails ==
    /\ ws.phase = "connecting"
    /\ ws' = [ws EXCEPT !.phase = "failed"]
    /\ UNCHANGED <<store, tasks, streams, live_log, outsideLive>>

\* stop (lines 426-431): running becomes False and the exchange is closed.
Stop ==
    /\ ws.running
    /\ ws' = [ws EXCEPT !.running = FALSE]
    /\ UNCHANGED <<store, tasks, streams, live_log, outsideLive>>

\* "while self.running:" followed by the await of the next message:
\* where the task is after the test.
WhileRunningForever == "receive"
WhileRunning == IF ws.running THEN "receive" ELSE "exited"

\* "except Exception as e: print(...); await asyncio.sleep(5)": where the
\* task is after an exception inside the try.
OnExceptionLeave == "exited"
OnException == "pause"

\* The task t at the position pc; caught is the kind of exception when pc
\* is the pause of the except clause.
Moved(t, pc, caught) ==
    [tasks EXCEPT ![t] = [pc |-> pc,
                          caught |-> IF pc = "pause" THEN caught ELSE "none"]]

\* A created task runs for the first time: the first loop test.
TaskBegin(t) ==
    /\ tasks[t].pc = "created"
    /\ tasks' = Moved(t, WhileRunning, "none")
    /\ UNCHANGED <<ws, store, streams, live_log, outsideLive>>

\* The awaited exchange.watch_* call raises: a network error, or the
\* exchange closed by stop.  While running, at most max_errors of these
\* are considered.
ReceiveError(t, max_errors) ==
    /\ tasks[t].pc = "receive"
    /\ ~ws.running \/ live_log.errors < max_errors
    /\ tasks' = Moved(t, OnException, "receive")
    /\ live_log' = [live_log EXCEPT
                       !.errors = IF ws.running THEN @ + 1 ELSE @]
    /\ UNCHANGED <<ws, store, streams, outsideLive>>

\* asyncio.sleep(5) is over: the next loop test.
PauseOver(t) ==
    /\ tasks[t].pc = "pause"
    /\ tasks' = Moved(t, WhileRunning, "none")
    /\ UNCHANGED <<ws, store, streams, live_log, outsideLive>>

\* One more message delivered to a watch task.
Pushed(log) == [log EXCEPT !.pushes = @ + 1]

\* watch_ohlcv, lines 104-134: the awaited exchange.watch_ohlcv returns the
\* list ohlcv.  Of a non-empty list the last candle alone is unpacked and
\* handed to _store_ohlcv; write_ok tells whether the INSERT OR REPLACE ran
\* or raised inside _store_ohlcv, which logs the exception and returns
\* normally either way.  The callback, when one is registered, is awaited
\* next.
ReceiveOhlcv(ohlcv, write_ok, max_pushes) ==
    /\ tasks["ohlcv"].pc = "receive"
    /\ live_log.pushes < max_pushes
    /\ write_ok => CanWrite("ohlcv_data")
    /\ IF ohlcv = <<>>
       THEN /\ tasks' = Moved("ohlcv", WhileRunning, "none")
            /\ live_log' = Pushed(live_log)
            /\ UNCHANGED store
       ELSE IF Len(ohlcv[Len(ohlcv)]) # 6
       THEN /\ tasks' = Moved("ohlcv", OnException, "transform")
            /\ live_log' = Pushed(live_log)
            /\ UNCHANGED store
       ELSE LET latest == ohlcv[Len(ohlcv)]
                row    == OhlcvRow(EXCHANGE, LIVE_SYMBOL, LIVE_TIMEFRAME, latest)
                st     == IF write_ok THEN store_ohlcv(store, row) ELSE store
                absent == {ohlcv[i][1] : i \in
                              {j \in 1..Len(ohlcv) :
                                  ohlcv[j][1] \notin
                                      SeriesTimestamps(st, EXCHANGE, LIVE_SYMBOL,
                                                       LIVE_TIMEFRAME)}}
            IN  /\ store' = st
                /\ tasks' = Moved("ohlcv",
                                  IF ws.candle_callback THEN "callback"
                                  ELSE WhileRunning, "none")
                /\ live_log' = [Pushed(live_log) EXCEPT
                       !.handled =
                           Some([ohlcv |-> ohlcv, write_ok |-> write_ok,
                                 callback |-> ws.candle_callback,
                                 raised |-> FALSE,
                                 running |-> ws.running,
                                 absent |-> absent])]
    /\ UNCHANGED <<ws, streams, outsideLive>>

\* Line 134: the awaited candle_callback returns; the next loop test.
CallbackReturns ==
    /\ tasks["ohlcv"].pc = "callback"
    /\ tasks' = Moved("ohlcv", WhileRunning, "none")
    /\ UNCHANGED <<ws, store, streams, live_log, outsideLive>>

\* Lines 134-138: the awaited candle_callback raises.
CallbackRaises ==
    /\ tasks["ohlcv"].pc = "callback"
    /\ tasks' = Moved("ohlcv", OnException, "callback")
    /\ live_log' = [live_log EXCEPT !.handled[1].raised = TRUE]
    /\ UNCHANGED <<ws, store, streams, outsideLive>>

\* watch_ticker, lines 151-176: ticker is None (ticker.get raises) or
\* Some(dict); a ticker with last > 0 is handed to _store_ticker.  The row
\* is recorded by its content; the wall-clock timestamp of the row is left
\* out.
ReceiveTicker(ticker, write_ok, max_pushes) ==
    /\ tasks["ticker"].pc = "receive"
    /\ live_log.pushes < max_pushes
    /\ write_ok => CanWrite("ticker_data")
    /\ live_log' = Pushed(live_log)
    /\ IF ticker = None
       THEN /\ tasks' = Moved("ticker", OnException, "transform")
            /\ UNCHANGED streams
       ELSE IF ticker[1].last > 0
       THEN /\ tasks' = Moved("ticker", WhileRunning, "none")
            /\ streams' = IF write_ok
                          THEN [streams EXCEPT !.ticker_data = @ \cup {ticker[1]}]
                          ELSE streams
       ELSE /\ tasks' = Moved("ticker", WhileRunning, "none")
            /\ UNCHANGED streams
    /\ UNCHANGED <<ws, store, outsideLive>>

\* Lines 202-209: the identifier a trade is stored under: its own id, or
\* one made of timestamp, price and amount when it has none.
TradeId(trade) ==
    IF trade.id = None
    THEN <<trade.timestamp, trade.price, trade.amount>>
    ELSE trade.id

\* _store_trade, INSERT OR IGNORE INTO trades_stream: a trade whose
\* identifier is stored already is left as it is.
RECURSIVE StoreTrades(_, _, _)
StoreTrades(rows, trades, i) ==
    IF i > Len(trades)
    THEN rows
    ELSE LET id == TradeId(trades[i])
         IN  StoreTrades(IF \E r \in rows : r.trade_id = id
                         THEN rows
                         ELSE rows \cup {[trade_id |-> id,
                                          price |-> trades[i].price,
                                          amount |-> trades[i].amount]},
                         trades, i + 1)

\* watch_trades, lines 194-227: trades is None (the for loop raises) or
\* Some(list); every trade of the list is handed to _store_trade.
ReceiveTrades(trades, write_ok, max_pushes) ==
    /\ tasks["trades"].pc = "receive"
    /\ live_log.pushes < max_pushes
    /\ write_ok => CanWrite("trades_stream")
    /\ live_log' = Pushed(live_log)
    /\ IF trades = None
       THEN /\ tasks' = Moved("trades", OnException, "transform")
            /\ UNCHANGED streams
       ELSE /\ tasks' = Moved("trades", WhileRunning, "none")
            /\ streams' = IF write_ok
                          THEN [streams EXCEPT !.trades_stream =
                                   StoreTrades(@, trades[1], 1)]
                          ELSE streams
    /\ UNCHANGED <<ws, store, outsideLive>>

\* Lines 246-265: the top levels of both sides, the sides swapped when the
\* best ask is below the best bid, mid price and spread when both sides
\* have a level.
OrderBookRowUnswapped(orderbook) ==
    LET Top(side) == SubSeq(side, 1, IF Len(side) < ORDERBOOK_DEPTH
                                     THEN Len(side) ELSE ORDERBOOK_DEPTH)
        bids == Top(orderbook.bids)
        asks == Top(orderbook.asks)
        both == bids # <<>> /\ asks # <<>>
    IN  [bids |-> bids, asks |-> asks,
         bid_ask_spread |-> IF both THEN Some(asks[1][1] - bids[1][1]) ELSE None,
         mid_price |-> IF both THEN Some((bids[1][1] + asks[1][1]) \div 2)
                       ELSE None]

OrderBookRow(orderbook) ==
    LET Top(side) == SubSeq(side, 1, IF Len(side) < ORDERBOOK_DEPTH
                                     THEN Len(side) ELSE ORDERBOOK_DEPTH)
        bids0   == Top(orderbook.bids)
        asks0   == Top(orderbook.asks)
        both    == bids0 # <<>> /\ asks0 # <<>>
        crossed == both /\ asks0[1][1] < bids0[1][1]
        bids    == IF crossed THEN asks0 ELSE bids0
        asks    == IF crossed THEN bids0 ELSE asks0
    IN  [bids |-> bids, asks |-> asks,
         bid_ask_spread |-> IF both THEN Some(asks[1][1] - bids[1][1]) ELSE None,
         mid_price |-> IF both THEN Some((bids[1][1] + asks[1][1]) \div 2)
                       ELSE None]

\* watch_order_book, lines 240-280: orderbook is None (orderbook.get
\* raises) or Some(dict); the row is handed to _store_orderbook.
ReceiveOrderBook(orderbook, write_ok, max_pushes) ==
    /\ tasks["order_book"].pc = "receive"
    /\ live_log.pushes < max_pushes
    /\ write_ok => CanWrite("orderbook_data")
    /\ live_log' = Pushed(live_log)
    /\ IF orderbook = None
       THEN /\ tasks' = Moved("order_book", OnException, "transform")
            /\ UNCHANGED streams
       ELSE /\ tasks' = Moved("order_book", WhileRunning, "none")
            /\ streams' = IF write_ok
                          THEN [streams EXCEPT !.orderbook_data =
                                   @ \cup {OrderBookRow(orderbook[1])}]
                          ELSE streams
    /\ UNCHANGED <<ws, store, outsideLive>>

(***************************************************************************)
(* ExecutionManager (packages/execution/manager.py) and Signal             *)
(* (packages/signals/types.py)                                             *)
(***************************************************************************)

\* quantity = 0.001 in _execute_buy.  The unit is a sixteenth of that
\* amount, so that the half of a quantity is exact, as it is with floats.
QUANTITY == 16

\* confidence and close_percentage are counted in halves: WHOLE is 1.0.
WHOLE == 2

\* Signal.__post_init__, lines 49-62: the constructor raises ValueError for
\* a confidence outside [0.0, 1.0] and, for PARTIAL_CLOSE, for a
\* close_percentage that is None or outside (0.0, 1.0].
SignalAccepted(signal) ==
    /\ 0 <= signal.confidence
    /\ signal.confidence <= WHOLE
    /\ signal.type = "partial_close" =>
           /\ signal.close_percentage # None
           /\ 0 < signal.close_percentage[1]
           /\ signal.close_percentage[1] <= WHOLE

\* No ExecutionManager has been constructed.  calls, orders and trades are
\* history: the calls of execute_signal, the orders the exchange accepted
\* and the rows written to the trades table; last is the latest call.
NoExecution ==
    [mode |-> "none", db_kind |-> "none", position |-> None, calls |-> 0,
     orders |-> <<>>, trades |-> <<>>, last |-> None]

\* __init__, lines 61-107: no position.
NewExecution(mode, db_kind) ==
    [NoExecution EXCEPT !.mode = mode, !.db_kind = db_kind]

\* Position(symbol, side="long", entry_price, quantity, entry_time,
\* highest_price), lines 179-186; entry_time is the wall clock and is left
\* out.
LongPosition(current_price) ==
    [side |-> "long", entry_price |-> current_price, quantity |-> QUANTITY,
     unrealized_pnl |-> 0, highest_price |-> current_price]

\* What a call of execute_signal did: the position it leaves, the value it
\* returns, the orders the exchange accepted and the rows it stored.
Executed(position, returned, orders, trades) ==
    [position |-> position, returned |-> returned, orders |-> orders,
     trades |-> trades]

\* self.db.execute of _store_trade (lines 348-371): a DatabaseManager has
\* no execute and the call raises AttributeError; a sqlite3 connection runs
\* the INSERT when the trades table exists, and may still raise.
CanStoreTrade(db_kind) == db_kind = "sqlite3" /\ "trades" \in tables

\* _execute_buy, lines 138-198.  In paper mode the position is assigned at
\* line 179 and _store_trade is called after it at line 189.  In live mode
\* the order is placed at line 175 and int(time.time() * 1000) at line 184
\* raises UnboundLocalError: the import of line 159 makes time a local
\* name of the function, bound in the paper branch only.
ExecuteBuy(ex, current_price, order_ok, store_ok) ==
    IF ex.position # None
    THEN Executed(ex.position, FALSE, <<>>, <<>>)
    ELSE IF ex.mode = "paper"
         THEN Executed(Some(LongPosition(current_price)), store_ok, <<>>,
                       IF store_ok THEN <<<<"buy", QUANTITY>>>> ELSE <<>>)
         ELSE Executed(ex.position, FALSE,
                       IF order_ok THEN <<<<"buy", QUANTITY>>>> ELSE <<>>,
                       <<>>)

\* _execute_sell, lines 200-204.
ExecuteSell(ex) == Executed(ex.position, FALSE, <<>>, <<>>)

\* Lines 217-243 and 277-303 of the two close methods: the sell order of
\* close_qty (simulated in paper mode), then pnl_pct, which divides by the
\* entry price.  The result is the orders accepted and whether the method
\* goes on to _store_trade.
SellOrder(ex, close_qty, order_ok) ==
    LET placed == ex.mode # "paper" /\ order_ok
    IN  [orders |-> IF placed THEN <<<<"sell", close_qty>>>> ELSE <<>>,
         goes_on |-> /\ ex.mode = "paper" \/ order_ok
                     /\ ex.position[1].entry_price # 0]

\* _execute_close, lines 206-259: the position is cleared at line 257,
\* after _store_trade.
ExecuteClose(ex, order_ok, store_ok) ==
    IF ex.position = None
    THEN Executed(None, FALSE, <<>>, <<>>)
    ELSE LET qty  == ex.position[1].quantity
             sell == SellOrder(ex, qty, order_ok)
             done == sell.goes_on /\ store_ok
         IN  Executed(IF done THEN None ELSE ex.position, done, sell.orders,
                      IF done THEN <<<<"sell", qty>>>> ELSE <<>>)

\* _execute_partial_close, lines 261-319: close_qty is quantity *
\* close_percentage, and the position keeps quantity - close_qty, assigned
\* at line 317 after _store_trade.
ExecutePartialClose(ex, close_percentage, order_ok, store_ok) ==
    IF ex.position = None
    THEN Executed(None, FALSE, <<>>, <<>>)
    ELSE LET position      == ex.position[1]
             close_qty     == (position.quantity * close_percentage) \div WHOLE
             remaining_qty == position.quantity - close_qty
             sell == SellOrder(ex, close_qty, order_ok)
             done == sell.goes_on /\ store_ok
         IN  Executed(IF done
                      THEN Some([position EXCEPT !.quantity = remaining_qty])
                      ELSE ex.position,
                      done, sell.orders,
                      IF done THEN <<<<"sell", close_qty>>>> ELSE <<>>)

\* execute_signal, lines 109-136: the method of the signal's type, and
\* False for every exception.
ExecuteSignalResult(ex, signal, current_price, order_ok, store_ok) ==
    CASE signal.type = "buy" ->
             ExecuteBuy(ex, current_price, order_ok, store_ok)
      [] signal.type = "sell" -> ExecuteSell(ex)
      [] signal.type = "close" -> ExecuteClose(ex, order_ok, store_ok)
      [] signal.type = "partial_close" ->
             ExecutePartialClose(ex, signal.close_percentage[1], order_ok,
                                 store_ok)

\* The manager after execute_signal(signal, symbol, current_price).
AfterSignal(ex, signal, current_price, order_ok, store_ok) ==
    LET r == ExecuteSignalResult(ex, signal, current_price, order_ok, store_ok)
    IN  [ex EXCEPT !.position = r.position,
                   !.calls = @ + 1,
                   !.orders = @ \o r.orders,
                   !.trades = @ \o r.trades,
                   !.last = Some([signal |-> signal,
                                  before |-> ex.position,
                                  returned |-> r.returned])]

\* self.execution.execute_signal(signal, symbol, current_price) with a
\* signal the constructor accepted.  order_ok: the exchange accepts an
\* order; store_ok: the INSERT of _store_trade succeeds.
ExecuteSignal(signal, current_price, order_ok, store_ok, max_signals) ==
    /\ execution.mode # "none"
    /\ execution.calls < max_signals
    /\ SignalAccepted(signal)
    /\ store_ok => CanStoreTrade(execution.db_kind)
    /\ execution' = AfterSignal(execution, signal, current_price, order_ok,
                                store_ok)
    /\ UNCHANGED <<tables, store, unfillable, source, fetch, direct,
                   mark_calls, trace, bf, repair_log, history, liveVars,
                   multi, strategy, runtime>>

\* update_position_pnl, lines 321-333.
AfterPositionPnl(ex, current_price) ==
    IF ex.position = None
    THEN ex
    ELSE LET position == ex.position[1]
         IN  [ex EXCEPT !.position = Some(
                 [position EXCEPT
                     !.unrealized_pnl =
                         (current_price - position.entry_price)
                             * position.quantity,
                     !.highest_price =
                         IF current_price > @ THEN current_price ELSE @])]

\* self.execution.update_position_pnl(current_price) with a position.
UpdatePositionPnl(current_price) ==
    /\ execution.position # None
    /\ execution' = AfterPositionPnl(execution, current_price)
    /\ UNCHANGED <<tables, store, unfillable, source, fetch, direct,
                   mark_calls, trace, bf, repair_log, history, liveVars,
                   multi, strategy, runtime>>

(***************************************************************************)
(* The strategy's candle history (packages/strategies/base.py,             *)
(* yaml_strategy.py) and TradingRuntime._on_candle                         *)
(***************************************************************************)

\* max_candles: int = 500
MAX_CANDLES == 500

\* config["market"]["timeframes"] and ["primary_timeframe"] of the model's
\* strategy.
STRATEGY_TIMEFRAMES == {"1m", "5m"}
PRIMARY_TIMEFRAME == "1m"

\* No strategy has been loaded.  delivered is history: the calls of
\* _on_candle.
NoStrategy ==
    [loaded |-> FALSE, history |-> [tf \in STRATEGY_TIMEFRAMES |-> <<>>],
     delivered |-> 0]

\* BaseStrategy.__init__ (lines 57-58) and warmup (lines 171-211): history
\* holds a list of candles for every timeframe.
LoadedStrategy(lists) ==
    [loaded |-> TRUE, history |-> lists, delivered |-> 0]

\* list[-n:]
LastOf(list, n) ==
    IF Len(list) > n THEN SubSeq(list, Len(list) - n + 1, Len(list)) ELSE list

\* update_history, lines 101-117: the candle is appended and the list
\* trimmed to its last max_candles entries.
UpdateHistory(lists, candle, timeframe) ==
    [lists EXCEPT ![timeframe] = LastOf(Append(@, candle), MAX_CANDLES)]

\* self.db.execute of log_signal (base.py 147-169), as in _store_trade.
CanLogSignal(db_kind) == db_kind = "sqlite3" /\ "signals" \in tables

\* generate_signals (yaml_strategy.py 81-136): a BUY without a position,
\* a CLOSE with confidence 1.0 with one.
GeneratedSignal(ex) ==
    [type |-> IF ex.position = None THEN "buy" ELSE "close",
     confidence |-> WHOLE, close_percentage |-> None]

\* YAMLStrategy.on_candle, lines 54-79, after its update_history: with
\* fewer than two candles of the primary timeframe it returns; otherwise
\* the conditions give no signal, or the indicators or log_signal raise,
\* or the signal is logged and executed.
OnCandleExecution(ex, lists, candle, decision, order_ok, store_ok) ==
    IF /\ Len(lists[PRIMARY_TIMEFRAME]) >= 2
       /\ decision = "signal"
       /\ CanLogSignal(ex.db_kind)
    THEN AfterSignal(ex, GeneratedSignal(ex), candle.close, order_ok, store_ok)
    ELSE ex

\* TradingRuntime._on_candle, runtime.py 138-175: update_history at line
\* 150, update_position_pnl when in position, then strategy.on_candle,
\* which calls update_history itself at yaml_strategy.py 63; every
\* exception of on_candle is logged at line 175.
OnCandle(candle, timeframe, decision, order_ok, store_ok, max_candles) ==
    /\ strategy.loaded
    /\ strategy.delivered < max_candles
    /\ store_ok => CanStoreTrade(execution.db_kind)
    /\ LET updated == UpdateHistory(strategy.history, candle, timeframe)
           ex      == AfterPositionPnl(execution, candle.close)
           again   == UpdateHistory(updated, candle, timeframe)
       IN  /\ strategy' = [strategy EXCEPT !.history = again,
                                           !.delivered = @ + 1]
           /\ execution' = OnCandleExecution(ex, again, candle, decision,
                                             order_ok, store_ok)
    /\ UNCHANGED <<tables, store, unfillable, source, fetch, direct,
                   mark_calls, trace, bf, repair_log, history, liveVars,
                   multi, runtime>>

(***************************************************************************)
(* TradingRuntime.run and shutdown (apps/trader/runtime.py 177-249)        *)
(***************************************************************************)

\* A TradingRuntime after __init__ (lines 32-65): running is False.
\* components says what setup has assigned: "none" before setup,
\* "no_websocket" when setup raised after the strategy was loaded (db,
\* execution and strategy are set, websocket is None), "all" after setup.
\* run is the position of run(), ws_running the running flag of the
\* websocket manager, handlers the positions of the shutdown tasks the
\* signal handler has created.  teardowns, stops, closes and early_calls
\* are history: how often the body of shutdown below the test of line 229
\* was entered, websocket.stop() and db.close() were called, and shutdown
\* was called before run().
NewRuntime(components) ==
    [components |-> components, running |-> FALSE, ws_running |-> FALSE,
     run |-> "new", handlers |-> <<>>, teardowns |-> 0, stops |-> 0,
     closes |-> 0, early_calls |-> 0]

\* shutdown, lines 229-230: "if not self.running: return".
ShutdownReturnsNever(rt) == FALSE

ShutdownReturns(rt) == ~rt.running

\* shutdown from its first line to its first await or its end, lines
\* 229-247: the flag is cleared, and with a websocket the call of stop()
\* clears the manager's flag and waits for the exchange to close;
\* without one the database is closed next.  The result is the runtime
\* and where the caller is: "returned", "stop" (inside await
\* self.websocket.stop()) or "raised".
ShutdownEnter(rt, close_ok) ==
    IF ShutdownReturns(rt)
    THEN [rt |-> rt, at |-> "returned"]
    ELSE LET entered == [rt EXCEPT !.running = FALSE, !.teardowns = @ + 1]
         IN  CASE rt.components = "all" ->
                      [rt |-> [entered EXCEPT !.ws_running = FALSE,
                                              !.stops = @ + 1],
                       at |-> "stop"]
               [] rt.components = "no_websocket" ->
                      [rt |-> [entered EXCEPT !.closes = @ + 1],
                       at |-> IF close_ok THEN "returned" ELSE "raised"]
               [] OTHER -> [rt |-> entered, at |-> "returned"]

\* shutdown after the await of line 243, lines 245-249: self.db.close().
ShutdownLeave(rt, close_ok) ==
    [rt |-> [rt EXCEPT !.closes = @ + 1],
     at |-> IF close_ok THEN "returned" ELSE "raised"]

\* self.db.close() of line 247 returns: the DatabaseManager of db.py has
\* no close method, so it can return only for the database of a setup
\* that went through.
CanClose(rt, close_ok) == close_ok => rt.components = "all"

\* runtime.shutdown() before runtime.run().
ShutdownBeforeRun(close_ok) ==
    /\ runtime.run = "new"
    /\ runtime.components # "unbuilt"
    /\ runtime.early_calls = 0
    /\ CanClose(runtime, close_ok)
    /\ runtime' = [ShutdownEnter(runtime, close_ok).rt
                       EXCEPT !.early_calls = @ + 1]
    /\ UNCHANGED <<tables, store, unfillable, source, fetch, direct,
                   mark_calls, trace, bf, repair_log, history, liveVars,
                   multi, execution, strategy>>

\* run, lines 177-218: running becomes True, the signal handlers are
\* installed, and inside the try the streams are gathered.  Before setup
\* self.strategy is None, after a setup that raised self.websocket is
\* None: line 192 or 196 raises AttributeError and run goes to its
\* finally block.
RunStart ==
    /\ runtime.run = "new"
    /\ runtime.components # "unbuilt"
    /\ runtime' = IF runtime.components = "all"
                  THEN [runtime EXCEPT !.running = TRUE,
                                       !.ws_running = TRUE, !.run = "gather"]
                  ELSE [runtime EXCEPT !.running = TRUE, !.run = "finally"]
    /\ UNCHANGED <<tables, store, unfillable, source, fetch, direct,
                   mark_calls, trace, bf, repair_log, history, liveVars,
                   multi, execution, strategy>>

\* The end of await asyncio.gather(*tasks), lines 218-224: every watch
\* loop has seen the manager's flag False and returned, or run() was
\* cancelled.
StreamsEnd(cancelled) ==
    /\ runtime.run = "gather"
    /\ ~cancelled => ~runtime.ws_running
    /\ runtime' = [runtime EXCEPT !.run = "finally"]
    /\ UNCHANGED <<tables, store, unfillable, source, fetch, direct,
                   mark_calls, trace, bf, repair_log, history, liveVars,
                   multi, execution, strategy>>

\* Where run() is after a step of the shutdown it awaits at line 225:
\* run() ends when shutdown returns or raises.
RunAfter(at) == IF at = "stop" THEN "stop" ELSE "done"

\* When run() has ended the event loop is closed (asyncio.run of line
\* 280) and the shutdown tasks that have not finished are cancelled.
HandlersAfter(handlers, run) ==
    IF run = "done"
    THEN [k \in DOMAIN handlers |->
             IF handlers[k] \in {"created", "stop"} THEN "cancelled"
             ELSE handlers[k]]
    ELSE handlers

\* "finally: await self.shutdown()", line 225.
RunFinally(close_ok) ==
    /\ runtime.run = "finally"
    /\ CanClose(runtime, close_ok)
    /\ LET r == ShutdownEnter(runtime, close_ok)
       IN  runtime' = [r.rt EXCEPT
                          !.run = RunAfter(r.at),
                          !.handlers = HandlersAfter(@, RunAfter(r.at))]
    /\ UNCHANGED <<tables, store, unfillable, source, fetch, direct,
                   mark_calls, trace, bf, repair_log, history, liveVars,
                   multi, execution, strategy>>

\* websocket.stop() returns to the shutdown that run() awaits.
RunStopped(close_ok) ==
    /\ runtime.run = "stop"
    /\ CanClose(runtime, close_ok)
    /\ LET r == ShutdownLeave(runtime, close_ok)
       IN  runtime' = [r.rt EXCEPT !.run = "done",
                                   !.handlers = HandlersAfter(@, "done")]
    /\ UNCHANGED <<tables, store, unfillable, source, fetch, direct,
                   mark_calls, trace, bf, repair_log, history, liveVars,
                   multi, execution, strategy>>

\* SIGINT or SIGTERM while the handlers of line 188 are installed and the
\* loop runs: asyncio.create_task(self.shutdown()).
Interrupt(max_interrupts) ==
    /\ runtime.run \in {"gather", "finally", "stop"}
    /\ Len(runtime.handlers) < max_interrupts
    /\ runtime' = [runtime EXCEPT !.handlers = Append(@, "created")]
    /\ UNCHANGED <<tables, store, unfillable, source, fetch, direct,
                   mark_calls, trace, bf, repair_log, history, liveVars,
                   multi, execution, strategy>>

\* The shutdown task k runs from its start to its first await or its end.
HandlerEnter(k, close_ok) ==
    /\ k \in DOMAIN runtime.handlers
    /\ runtime.handlers[k] = "created"
    /\ CanClose(runtime, close_ok)
    /\ LET r == ShutdownEnter(runtime, close_ok)
       IN  runtime' = [r.rt EXCEPT !.handlers[k] = r.at]
    /\ UNCHANGED <<tables, store, unfillable, source, fetch, direct,
                   mark_calls, trace, bf, repair_log, history, liveVars,
                   multi, execution, strategy>>

\* websocket.stop() returns to the shutdown task k.
HandlerStopped(k, close_ok) ==
    /\ k \in DOMAIN runtime.handlers
    /\ runtime.handlers[k] = "stop"
    /\ CanClose(runtime, close_ok)
    /\ LET r == ShutdownLeave(runtime, close_ok)
       IN  runtime' = [r.rt EXCEPT !.handlers[k] = r.at]
    /\ UNCHANGED <<tables, store, unfillable, source, fetch, direct,
                   mark_calls, trace, bf, repair_log, history, liveVars,
                   multi, execution, strategy>>


\* No TradingRuntime has been constructed.
NoRuntime == NewRuntime("unbuilt")

\* No trader has been constructed.
TraderIdle ==
    /\ execution = NoExecution
    /\ strategy = NoStrategy
    /\ runtime = NoRuntime

(***************************************************************************)
(* The store under direct calls: any interleaving of historical batch      *)
(* inserts, live candle writes and memo calls.                             *)
(***************************************************************************)

BTC1m == <<EXCHANGE, "BTC/USDT", "1m">>
ETH1m == <<EXCHANGE, "ETH/USDT", "1m">>
StoreSeries == {BTC1m, ETH1m}

Row(series, ts, v) == OhlcvRow(series[1], series[2], series[3], Candle(ts, v))

\* The batches handed to insert_ohlcv_batch: a series with a hole between
\* minute 0 and minute 10, the candles of the hole, a batch that names one
\* key twice, and a batch of another series.
BatchHole  == <<Row(BTC1m, 0, OHLCV1), Row(BTC1m, 10, OHLCV1)>>
BatchFill  == [i \in 1..9 |-> Row(BTC1m, i, OHLCV1)]
BatchTwice == <<Row(BTC1m, 10, OHLCV2), Row(BTC1m, 10, OHLCV1),
                Row(BTC1m, 12, OHLCV1)>>
BatchOther == <<Row(ETH1m, 0, OHLCV1), Row(ETH1m, 4, OHLCV1)>>
StoreBatches == {BatchHole, BatchFill, BatchTwice, BatchOther}

\* The candles pushed on the live path, and the memo arguments.
LiveTimestamps == {10, 12}
LiveValues == {OHLCV1, OHLCV2}
MemoBounds == {<<0, 10>>, <<0, 9>>}

NoDirectCall == [last_batch |-> <<>>, last_rowcount |-> 0, repeat_call |-> FALSE]

\* A database file is either created by _initialize_database (db.py 46-48)
\* or found on disk (db.py 49-50), and then it may hold an unfillable_gaps
\* table that was created outside the program.
\* The database file before the program starts: missing; created with the
\* statements of _initialize_database; or holding the memo table as well.
DatabaseFiles ==
    {None, Some(InitializedTables),
     Some(InitializedTables \cup {"unfillable_gaps"})}

InitDatabase ==
    /\ \E file \in DatabaseFiles :
           /\ DatabaseManagerInit(file) # None
           /\ tables = DatabaseManagerInit(file)[1]
    /\ unfillable = {}
    /\ direct = NoDirectCall
    /\ mark_calls = {}

InitStore ==
    /\ InitDatabase
    /\ store = {}
    /\ source = {}
    /\ fetch = IdleFetch
    /\ trace = NoTrace
    /\ bf = IdleBackfill
    /\ repair_log = {}
    /\ history = <<>>
    /\ LiveIdle
    /\ multi = IdleMulti
    /\ TraderIdle

\* db.insert_ohlcv_batch(data)
InsertOhlcvBatch(data) ==
    LET r == insert_ohlcv_batch(store, data)
    IN  /\ store' = r.store
        /\ direct' = [last_batch |-> data, last_rowcount |-> r.rowcount,
                      repeat_call |-> (direct.last_batch = data)]
        /\ UNCHANGED <<tables, unfillable, mark_calls, outsideStore>>

\* WebSocketManager._store_ohlcv(...)
StoreOhlcv(series, ts, v) ==
    /\ store' = store_ohlcv(store, Row(series, ts, v))
    /\ direct' = NoDirectCall
    /\ UNCHANGED <<tables, unfillable, mark_calls, outsideStore>>

\* db.mark_unfillable_gap(...)
MarkUnfillableGap(series, b) ==
    /\ unfillable' = mark_unfillable_gap(tables, unfillable, series[1],
                                         series[2], series[3], b[1], b[2])
    /\ mark_calls' = mark_calls \cup {<<series, b[1], b[2]>>}
    /\ direct' = NoDirectCall
    /\ UNCHANGED <<tables, store, outsideStore>>

NextStore ==
    \/ \E data \in StoreBatches : InsertOhlcvBatch(data)
    \/ \E ts \in LiveTimestamps, v \in LiveValues : StoreOhlcv(BTC1m, ts, v)
    \/ \E s \in StoreSeries, b \in MemoBounds : MarkUnfillableGap(s, b)

SpecStore == InitStore /\ [][NextStore]_vars

(***************************************************************************)
(* Properties of the store                                                 *)
(***************************************************************************)

Range(f) == {f[i] : i \in DOMAIN f}

\* C2 -- Uniqueness: in every reachable state, after any interleaving of
\* historical batch inserts (insert-or-ignore) and live candle writes
\* (insert-or-replace), no two stored candle rows share the same
\* (exchange, symbol, timeframe, timestamp).
C2_Uniqueness ==
    \A r1, r2 \in store :
        (/\ r1.exchange = r2.exchange
         /\ r1.symbol = r2.symbol
         /\ r1.timeframe = r2.timeframe
         /\ r1.timestamp = r2.timestamp) => r1 = r2

\* A live write stored minute 12 with values no batch carries, and a later
\* batch holding minute 12 (and minute 10 twice) was inserted over it.
C2_Witness ==
    /\ direct.last_batch = BatchTwice
    /\ direct.last_rowcount < Len(direct.last_batch)
    /\ Row(BTC1m, 12, OHLCV2) \in store

\* C3 -- Idempotent upsert: calling insert_ohlcv_batch with the batch of the
\* call before it returns 0 and leaves the store content, keys and values,
\* exactly as it was after the first call.
C3_IdempotentUpsert ==
    [][\A data \in StoreBatches :
          (direct.last_batch = data /\ InsertOhlcvBatch(data))
              => (direct'.last_rowcount = 0 /\ store' = store)]_vars

\* The same batch, one that names a key twice, was inserted twice in a row.
C3_Witness ==
    /\ direct.repeat_call
    /\ direct.last_batch = BatchTwice
    /\ \A i \in 1..Len(direct.last_batch) :
           Conflicts(store, direct.last_batch[i]) # {}

\* The pairs find_gaps reports for a series at its nominal spacing.
ReportedGaps(series) ==
    find_gaps(store, series[1], series[2], series[3], TIMEFRAME_MS[series[3]])

\* The list of gaps backfill goes on to repair.
RepairList(series) ==
    FillableGaps(tables, unfillable, store, series[1], series[2], series[3],
                 TIMEFRAME_MS[series[3]])

\* C5 as stated -- once a memo row (series, a, b) is recorded, every later
\* find_gaps scan of that series omits the interval (a, b).
C5_FindGapsOmitsMemoized ==
    \A g \in unfillable :
        <<g.gap_start, g.gap_end>>
            \notin Range(ReportedGaps(<<g.exchange, g.symbol, g.timeframe>>))

\* C5 as amended -- once a memo row (series, a, b) is recorded, the list of
\* gaps that backfill builds for repair (the find_gaps result filtered
\* through is_unfillable_gap) omits the interval (a, b), also while the
\* stored timestamps a and b are still consecutive and more than 2 x spacing
\* apart; find_gaps itself goes on reporting the interval.
C5_RepairListOmitsMemoized ==
    \A g \in unfillable :
        <<g.gap_start, g.gap_end>>
            \notin Range(RepairList(<<g.exchange, g.symbol, g.timeframe>>))

\* A memoized interval whose bounds are still stored, consecutive and more
\* than 2 x spacing apart: the scan reports it, the repair list does not.
C5_Witness ==
    \E g \in unfillable :
        /\ <<g.gap_start, g.gap_end>>
               \in Range(ReportedGaps(<<g.exchange, g.symbol, g.timeframe>>))
        /\ g.gap_end - g.gap_start > 2 * TIMEFRAME_MS[g.timeframe]

\* C6 -- Memo lookup: on a store initialised by this program,
\* is_unfillable_gap(series, a, b) is true if and only if
\* mark_unfillable_gap was called before with that series and exactly the
\* bounds a and b.
C6_MemoLookup ==
    tables = InitializedTables =>
        \A s \in StoreSeries, b \in MemoBounds :
            is_unfillable_gap(tables, unfillable, s[1], s[2], s[3], b[1], b[2])
                <=> <<s, b[1], b[2]>> \in mark_calls

\* C7 -- Gap detection: find_gaps(series, spacing) returns exactly the pairs
\* (t, t') of consecutive stored timestamps of that series with
\* t' - t > 2 x spacing, in ascending order and only those of the series (up
\* to the result cap); a series holding only minute 0 and minute 10 at
\* 1-minute spacing yields exactly one gap, and none once minutes 1 to 9
\* are inserted.
C7_GapDetection ==
    \A s \in StoreSeries :
        LET S  == {r.timestamp : r \in {x \in store :
                       <<x.exchange, x.symbol, x.timeframe>> = s}}
            tf == TIMEFRAME_MS[s[3]]
            G  == ReportedGaps(s)
            Consecutive(t, u) ==
                /\ t \in S /\ u \in S /\ t < u
                /\ ~\E w \in S : t < w /\ w < u
            Wide == {p \in S \X S : Consecutive(p[1], p[2]) /\ p[2] - p[1] > 2 * tf}
        IN  /\ \A i \in 1..Len(G) : G[i] \in Wide
            /\ Cardinality(Wide) <= 100 => Wide \subseteq Range(G)
            /\ \A i, j \in 1..Len(G) : i < j => G[i][1] < G[j][1]
            /\ (s = BTC1m /\ S = {0, 10}) => G = << <<0, 10>> >>
            /\ (s = BTC1m /\ S = 0..10) => G = <<>>

\* Both series hold a hole; BTC also holds the pair (10, 12), which is
\* exactly 2 x spacing apart and is no gap.
C7_Witness ==
    /\ ReportedGaps(BTC1m) = << <<0, 10>> >>
    /\ ReportedGaps(ETH1m) = << <<0, 4>> >>
    /\ Row(BTC1m, 12, OHLCV1) \in store

(***************************************************************************)
(* _fetch_range invocations against any exchange: one series, windows wider *)
(* and narrower than the initial look-back, an exchange that answers from  *)
(* its holdings, with any other page, with an empty page or with an error. *)
(***************************************************************************)

\* Bound of the model: the requests of one invocation that fail with a
\* network error.
MaxNetErrors == 1

FetchWindows ==
    {<<0, 5000>>, <<4000, 5000>>, <<4998, 5000>>, <<4400, 4975>>}

\* What the exchange holds: nothing, or the three newest minutes.
HeldTop == {Candle(4998, OHLCV1), Candle(4999, OHLCV1), Candle(5000, OHLCV1)}
FetchSources == {{}, HeldTop}

\* What the store holds at the start: nothing, or candles that some pages
\* bring again.
StoredBefore == {Row(BTC1m, t, OHLCV2) : t \in {4970, 4980, 4999, 5000}}
FetchStores == {{}, StoredBefore}

InitFetch ==
    /\ InitDatabase
    /\ tables = InitializedTables
    /\ store \in FetchStores
    /\ source \in FetchSources
    /\ fetch = IdleFetch
    /\ trace = NoTrace
    /\ bf = IdleBackfill
    /\ repair_log = {}
    /\ history = <<>>
    /\ LiveIdle
    /\ multi = IdleMulti
    /\ TraderIdle

\* await self._fetch_range(symbol, timeframe, tf_ms, start_ts, end_ts)
FetchCall(series, w) ==
    /\ fetch.pc = "idle"
    /\ fetch' = FetchRangeEntry(series[1], series[2], series[3],
                                TIMEFRAME_MS[series[3]], w[1], w[2])
    /\ trace' = EntryTrace(store, series[1], series[2], series[3], w[1], w[2])
    /\ UNCHANGED <<store, outsideFetch>>

\* The iteration cap is out of reach when at most MaxNetErrors requests
\* fail: FetchCapReached is enabled in no state of this specification.
NextFetch ==
    \/ \E w \in FetchWindows : FetchCall(BTC1m, w)
    \/ FetchReachedStart
    \/ FetchNetworkError(MaxNetErrors)
    \/ FetchExchangeError
    \/ FetchEmptyPage
    \/ \E ohlcv \in Responses : FetchPage(ohlcv)

SpecFetch == InitFetch /\ [][NextFetch]_vars

(***************************************************************************)
(* One _fetch_range invocation against an exchange that may fail every     *)
(* request: the network error is not bounded here, the loop's own cap is.  *)
(***************************************************************************)

CapWindow == <<4000, 5000>>
CapResponses == {RoguePage(<<9000>>)}

InitCap ==
    /\ InitDatabase
    /\ tables = InitializedTables
    /\ store = {}
    /\ source = {}
    /\ fetch = IdleFetch
    /\ trace = NoTrace
    /\ bf = IdleBackfill
    /\ repair_log = {}
    /\ history = <<>>
    /\ LiveIdle
    /\ multi = IdleMulti
    /\ TraderIdle

NextCap ==
    \/ FetchCall(BTC1m, CapWindow)
    \/ FetchCapReached
    \/ FetchReachedStart
    \/ FetchNetworkError(MAX_ITERATIONS)
    \/ FetchExchangeError
    \/ FetchEmptyPage
    \/ \E ohlcv \in CapResponses : FetchPage(ohlcv)

\* The loop is sequential code and the exchange client answers, or fails,
\* every request: an enabled step of the invocation is eventually taken.
SpecFetchCap == InitCap /\ [][NextCap]_vars /\ WF_vars(NextCap)

(***************************************************************************)
(* Properties of _fetch_range                                              *)
(***************************************************************************)

\* The exchange holds a candle at every spacing step of the window.
DenseInWindow ==
    \A t \in fetch.start_ts..fetch.end_ts :
        (t - fetch.start_ts) % fetch.tf_ms = 0 => \E c \in source : c[1] = t

\* C1 -- Completeness: for every window [start, end] with start < end, if
\* the exchange holds a candle at every spacing step of the window and never
\* fails, and the store holds no candle of the series inside the window,
\* then when _fetch_range returns the store contains every candle of the
\* exchange with start <= timestamp <= end.
C1_Completeness ==
    (/\ fetch.pc = "returned"
     /\ fetch.start_ts < fetch.end_ts
     /\ trace.honest
     /\ trace.window_empty
     /\ DenseInWindow)
        => \A c \in source :
               (fetch.start_ts <= c[1] /\ c[1] <= fetch.end_ts)
                   => OhlcvRow(fetch.exchange, fetch.symbol, fetch.timeframe, c)
                          \in store

\* C9 -- Window bound: for every page the exchange returns, also pages that
\* overrun the requested bound, _fetch_range hands to the store only candles
\* with start_ts <= timestamp <= end_ts.
C9_WindowBound ==
    \A t \in trace.written : fetch.start_ts <= t /\ t <= fetch.end_ts

\* A page held a candle outside the window and candles of it were written.
C9_Witness ==
    /\ fetch.pc = "returned"
    /\ trace.overrun
    /\ trace.written # {}
    /\ fetch.total_inserted > 0

\* C10 -- Backward convergence: against an exchange that returns the same
\* non-empty page for every request, _fetch_range stops with the second
\* page: it issues at most two page requests.
C10_Convergence ==
    (trace.same_page /\ trace.first_page # <<>> /\ trace.requests >= 2)
        => (fetch.pc = "returned" /\ trace.requests = 2)

\* The second request brought the first page again and ended the fetch.
C10_Witness ==
    /\ trace.same_page
    /\ trace.first_page # <<>>
    /\ trace.requests = 2
    /\ fetch.pc = "returned"
    /\ fetch.consecutive_no_inserts = 0

\* C8 -- Termination: _fetch_range terminates for every behaviour of the
\* exchange (empty pages, repeated pages, pages outside the window, a
\* network error on every call, exchange errors) after at most 10000 page
\* requests, network-error retries included.
C8_Termination ==
    /\ [](trace.requests <= 10000)
    /\ <>(fetch.pc = "returned")

\* Every one of the 10000 iterations issued a request, and the cap ended
\* the invocation.
C8_Witness ==
    /\ fetch.pc = "returned"
    /\ fetch.iterations = 10000
    /\ trace.requests = 10000
    /\ trace.net_errors > 0

(***************************************************************************)
(* Runs of backfill() for one series against an exchange that answers each *)
(* request with the candles it holds, or with an error.                    *)
(***************************************************************************)

MaxRuns == 2

\* 2026-11-03 00:00 UTC, in minutes.
NOW == 29894400
Nows == {NOW, NOW + 1}
BackfillDays == {None, Some(1)}
BackfillTimeframes == {"1m", "2m"}

HeldAt(tss) == {Candle(t, OHLCV1) : t \in tss}
StoredAt(tss) == {Row(BTC1m, t, OHLCV2) : t \in tss}

\* What the exchange holds: nothing; every minute of NOW-9 .. NOW-4; a
\* candle 300 minutes back besides two recent ones; or four candles about
\* 500 minutes back.
BackfillSources ==
    {{}, HeldAt((NOW - 9)..(NOW - 4)), HeldAt({NOW - 300, NOW - 9, NOW - 8}),
     HeldAt({NOW - 504, NOW - 502, NOW - 500, NOW - 499})}

\* What the store holds before the first run: nothing; a series with the
\* hole (NOW-8, NOW-5); a series with the hole (NOW-1000, NOW-9); or the
\* one candle of NOW-495.
BackfillStores ==
    {{}, StoredAt({NOW - 9, NOW - 8, NOW - 5}),
     StoredAt({NOW - 1000, NOW - 9, NOW - 8}), StoredAt({NOW - 495})}

InitBackfill ==
    /\ InitDatabase
    /\ store \in BackfillStores
    /\ source \in BackfillSources
    /\ fetch = IdleFetch
    /\ trace = NoTrace
    /\ bf = IdleBackfill
    /\ repair_log = {}
    /\ history = <<>>
    /\ LiveIdle
    /\ multi = IdleMulti
    /\ TraderIdle

NextBackfill ==
    \/ \E tf \in BackfillTimeframes :
           BackfillUnknownTimeframe("BTC/USDT", tf, MaxRuns)
    \/ \E tf \in BackfillTimeframes, days \in BackfillDays, now \in Nows :
           BackfillStart("BTC/USDT", tf, days, now, MaxRuns)
    \/ BackfillPhase1Done
    \/ BackfillGapUnfillable
    \/ BackfillGapFilled
    \/ BackfillCrash
    \/ FetchReachedStart
    \/ FetchNetworkError(MaxNetErrors)
    \/ FetchExchangeError
    \/ (HonestPage(source, fetch.since, PAGE_LIMIT) = <<>> /\ FetchEmptyPage)
    \/ FetchPage(HonestPage(source, fetch.since, PAGE_LIMIT))

SpecBackfill == InitBackfill /\ [][NextBackfill]_vars

\* C4 -- An interval is memoized as unfillable only when the source has
\* been asked for it and proved to have no data: for every call
\* mark_unfillable_gap(gap_start, gap_end) that backfill makes, the repair
\* attempt issued at least one page request and the source holds no candle
\* with gap_start < timestamp < gap_end.
C4_UnfillableOnlyWhenProvedEmpty ==
    \A m \in repair_log :
        /\ m.requests >= 1
        /\ ~\E c \in source : m.gap_start < c[1] /\ c[1] < m.gap_end

\* Two runs of backfill in succession on one series with the same days
\* argument, the first one complete, the exchange answering every request
\* of both from holdings that do not change.
Successive(k) ==
    /\ k + 1 <= Len(history)
    /\ history[k].outcome = "complete"
    /\ history[k + 1].symbol = history[k].symbol
    /\ history[k + 1].timeframe = history[k].timeframe
    /\ history[k + 1].days = history[k].days
    /\ history[k].honest
    /\ history[k + 1].honest

\* C11 -- Resumability: when backfill is run twice in succession on the same
\* series with no new source data and no live writes in between, the first
\* phase of the second run inserts zero candles.
C11_Resumability ==
    \A k \in 1..Len(history) :
        (Successive(k) /\ history[k + 1].phase1_done)
            => history[k + 1].phase1_inserted = 0

\* The latest run is complete and restarted a run that the process crash
\* interrupted after a page write, with the same arguments at the same
\* time, the exchange answering every request of both from its holdings.
RestartedAndComplete ==
    /\ Len(history) >= 2
    /\ LET a == history[Len(history) - 1]
           b == history[Len(history)]
       IN  /\ a.outcome = "crashed"
           /\ a.wrote
           /\ b.outcome = "complete"
           /\ b.symbol = a.symbol
           /\ b.timeframe = a.timeframe
           /\ b.days = a.days
           /\ b.now = a.now
           /\ a.honest
           /\ b.honest

\* C12 -- Restart equivalence: if a backfill run is interrupted after any
\* page write and backfill is then run again to completion against the
\* unchanged source, the final store content equals the store content of a
\* single uninterrupted run from the state the interrupted run started in.
C12_RestartEquivalence ==
    RestartedAndComplete =>
        LET a == history[Len(history) - 1]
        IN  store = BackfillRun(a.store0, a.unfillable0, source, a.symbol,
                                a.timeframe, a.days, a.now)

\* The function of an uninterrupted run agrees with the stepwise run: when
\* the first run of a behaviour completes with every request answered from
\* the holdings, the store is what BackfillRun computes from the start.
BackfillRunAgrees ==
    (/\ Len(history) = 1
     /\ history[1].outcome = "complete"
     /\ history[1].honest)
        => store = BackfillRun(history[1].store0, history[1].unfillable0,
                               source, history[1].symbol, history[1].timeframe,
                               history[1].days, history[1].now)

\* The origin horizon of a run: now - days when days is given, the 2017
\* floor otherwise.
OriginHorizon(r) ==
    IF Truthy(r.days) THEN r.now - r.days[1] * MINUTES_PER_DAY ELSE ORIGIN_2017

\* C13 -- Backward extension to the origin: when the series already has
\* data whose earliest stored timestamp is later than the origin horizon, a
\* backfill run hands _fetch_range a window whose lower bound is the origin
\* horizon.
C13_BackwardToOrigin ==
    \A k \in 1..Len(history) :
        (/\ history[k].outcome = "complete"
         /\ Truthy(history[k].earliest_ts)
         /\ history[k].earliest_ts[1] > OriginHorizon(history[k]))
            => OriginHorizon(history[k]) \in history[k].starts

\* C14 -- Memoized gaps are not re-requested: after a run in which the
\* repair of gap (a, b) inserted zero candles, the following run on the same
\* series issues no page request for (a, b) and its list of gaps to repair
\* does not contain it (the list holds only pairs whose timestamps are still
\* adjacent in the store).
C14_MemoizedNotRepeated ==
    \A k \in 1..Len(history) :
        (/\ k + 1 <= Len(history)
         /\ history[k].outcome = "complete"
         /\ history[k + 1].symbol = history[k].symbol
         /\ history[k + 1].timeframe = history[k].timeframe)
            => \A g \in history[k].failed :
                   /\ g \notin Range(history[k + 1].gaps)
                   /\ g \notin history[k + 1].requested

(***************************************************************************)
(* One WebSocketManager from construction to stop, with the messages the   *)
(* exchange pushes to its watch tasks.                                     *)
(***************************************************************************)

MaxPushes == 2
MaxReceiveErrors == 1

\* The lists exchange.watch_ohlcv returns: empty, one candle of minute 10
\* with either content, minutes 11 and 12 in one list, and a list whose
\* last entry is no candle.
OhlcvPushes ==
    {<<>>, <<Candle(10, OHLCV1)>>, <<Candle(10, OHLCV2)>>,
     <<Candle(11, OHLCV2), Candle(12, OHLCV1)>>, <<<<10>>>>}

TickerPushes ==
    {None, Some([bid |-> 4, ask |-> 6, last |-> 5]),
     Some([bid |-> 0, ask |-> 0, last |-> 0])}

Trade(id) == [id |-> id, timestamp |-> 10, price |-> 5, amount |-> 1]
TradePushes ==
    {None, Some(<<Trade(Some(1))>>), Some(<<Trade(Some(1)), Trade(None)>>)}

\* Prices are whole numbers of half ticks, so the mid price of two prices
\* whose sum is even is a whole number too.
OrderBookPushes ==
    {None, Some([bids |-> <<<<4, 1>>, <<2, 5>>>>, asks |-> <<<<6, 1>>>>]),
     Some([bids |-> <<<<6, 2>>>>, asks |-> <<<<4, 3>>, <<2, 1>>>>]),
     Some([bids |-> <<<<4, 1>>>>, asks |-> <<>>])}

\* The database the connection is on: the tables of _initialize_database,
\* or those and the two tables of the trade and order book streams.
LiveTables ==
    {InitializedTables,
     InitializedTables \cup {"orderbook_data", "trades_stream"}}

\* The candle of minute 10 as the historical path stored it; minutes 11
\* and 12 are not stored.
HistoricalRow == OhlcvRow(EXCHANGE, LIVE_SYMBOL, LIVE_TIMEFRAME, Candle(10, OHLCV1))

\* db_connection is a sqlite3 connection (example_usage of websocket.py) on either
\* database, or the DatabaseManager (TradingRuntime.setup).
LiveSetups ==
    ({"sqlite3"} \X LiveTables) \cup {<<"DatabaseManager", InitializedTables>>}

\* A manager constructed on one of the setups.
InitLiveOn(setups) ==
    /\ \E setup \in setups :
           /\ tables = setup[2]
           /\ ws = NewManager(setup[1])
    /\ unfillable = {}
    /\ direct = NoDirectCall
    /\ mark_calls = {}
    /\ store = {HistoricalRow}
    /\ source = {}
    /\ fetch = IdleFetch
    /\ trace = NoTrace
    /\ bf = IdleBackfill
    /\ repair_log = {}
    /\ history = <<>>
    /\ tasks = [t \in TaskIds |-> NoTask]
    /\ streams = [ticker_data |-> {}, orderbook_data |-> {}, trades_stream |-> {}]
    /\ live_log = NoLiveLog
    /\ multi = IdleMulti
    /\ TraderIdle

InitLive == InitLiveOn(LiveSetups)

\* The steps of the task t.
TaskStep(t) ==
    \/ TaskBegin(t)
    \/ ReceiveError(t, MaxReceiveErrors)
    \/ PauseOver(t)
    \/ /\ t = "ohlcv"
       /\ \/ \E ohlcv \in OhlcvPushes, ok \in BOOLEAN :
                 ReceiveOhlcv(ohlcv, ok, MaxPushes)
          \/ CallbackReturns
          \/ CallbackRaises
    \/ /\ t = "ticker"
       /\ \E ticker \in TickerPushes, ok \in BOOLEAN :
              ReceiveTicker(ticker, ok, MaxPushes)
    \/ /\ t = "trades"
       /\ \E trades \in TradePushes, ok \in BOOLEAN :
              ReceiveTrades(trades, ok, MaxPushes)
    \/ /\ t = "order_book"
       /\ \E orderbook \in OrderBookPushes, ok \in BOOLEAN :
              ReceiveOrderBook(orderbook, ok, MaxPushes)

NextLive ==
    \/ RegisterCandleCallback
    \/ \E enable \in BOOLEAN : Start(enable, enable)
    \/ StartConnected
    \/ StartConnectFails
    \/ Stop
    \/ \E t \in TaskIds : TaskStep(t)

SpecLive == InitLive /\ [][NextLive]_vars

(***************************************************************************)
(* The manager of example_usage, started and stopped: a sqlite3 connection *)
(* on a database with every table, and of each kind of message one that   *)
(* is handled and one that raises.                                         *)
(***************************************************************************)

StopSetups == {<<"sqlite3", InitializedTables \cup {"orderbook_data", "trades_stream"}>>}

InitStop == InitLiveOn(StopSetups)

\* The steps of the task t.
TaskStepStop(t) ==
    \/ TaskBegin(t)
    \/ ReceiveError(t, MaxReceiveErrors)
    \/ PauseOver(t)
    \/ /\ t = "ohlcv"
       /\ \/ \E ohlcv \in {<<Candle(10, OHLCV2)>>, <<<<10>>>>} :
                 ReceiveOhlcv(ohlcv, TRUE, MaxPushes)
          \/ CallbackReturns
          \/ CallbackRaises
    \/ /\ t = "ticker"
       /\ \E ticker \in {None, Some([bid |-> 4, ask |-> 6, last |-> 5])} :
              ReceiveTicker(ticker, TRUE, MaxPushes)
    \/ /\ t = "trades"
       /\ \E trades \in {None, Some(<<Trade(Some(1))>>)} :
              ReceiveTrades(trades, TRUE, MaxPushes)
    \/ /\ t = "order_book"
       /\ \E orderbook \in {None, Some([bids |-> <<<<4, 1>>>>, asks |-> <<<<6, 1>>>>])} :
              ReceiveOrderBook(orderbook, TRUE, MaxPushes)

NextStop ==
    \/ RegisterCandleCallback
    \/ \E enable \in BOOLEAN : Start(enable, enable)
    \/ StartConnected
    \/ StartConnectFails
    \/ Stop
    \/ \E t \in TaskIds : TaskStepStop(t)

\* The event loop runs a task that is ready, and the exchange answers or
\* fails every awaited call: while some task can take a step, some task
\* does.
SpecLiveFair ==
    /\ InitStop
    /\ [][NextStop]_vars
    /\ WF_vars(\E t \in TaskIds : TaskStepStop(t))

(***************************************************************************)
(* Properties of the watch tasks.                                          *)
(***************************************************************************)

\* C15: while running is true no step takes a watch task out of its loop,
\* whatever exception the receive call, the handling of the message, the
\* store write or the callback raised, and a task that leaves the pause of
\* its except clause awaits its subscription again.
C15_SurviveErrors ==
    [][\A t \in TaskIds :
          ws.running =>
              /\ tasks[t].pc # "exited" => tasks'[t].pc # "exited"
              /\ (tasks[t].pc = "pause" /\ tasks'[t].pc # "pause")
                     => tasks'[t].pc = "receive"]_vars

\* The candle task has had a store write fail, then caught the exception of
\* the callback, paused, and awaits watch_ohlcv again.
C15_Witness ==
    /\ ws.running
    /\ tasks["ohlcv"].pc = "receive"
    /\ live_log.handled # None
    /\ ~live_log.handled[1].write_ok
    /\ live_log.handled[1].raised

\* The last candle of the list that watch_ohlcv handled last, as a row.
LastPushedRow ==
    LET ohlcv == live_log.handled[1].ohlcv
    IN  OhlcvRow(EXCHANGE, LIVE_SYMBOL, LIVE_TIMEFRAME, ohlcv[Len(ohlcv)])

\* C16: the callback is invoked for a candle update only if the store write
\* of that update succeeded.
C16_CallbackOnlyAfterSuccessfulWrite ==
    (live_log.handled # None /\ live_log.handled[1].callback)
        => live_log.handled[1].write_ok

\* C17: once watch_ohlcv has handled a push, the row stored under the key
\* of the pushed candle holds the values of that push.
C17_LatestPushStored ==
    live_log.handled # None => LastPushedRow \in store

\* C19: when a pushed list of candles has been handled without a store
\* error, the store holds a row for the key of every candle of the list.
C19_EveryPushedCandleStored ==
    (live_log.handled # None /\ live_log.handled[1].write_ok)
        => live_log.handled[1].absent = {}

(***************************************************************************)
(* Two upserts of one candle each, applied to the store in either order.   *)
(***************************************************************************)

\* An upsert: the INSERT OR IGNORE of insert_ohlcv_batch with a batch of one
\* row, or the INSERT OR REPLACE of _store_ohlcv.
Upserts ==
    {<<kind, Row(BTC1m, ts, v)>> :
        kind \in {"ignore", "replace"}, ts \in LiveTimestamps, v \in LiveValues}

Upsert(st, u) ==
    IF u[1] = "ignore"
    THEN insert_ohlcv_batch(st, <<u[2]>>).store
    ELSE store_ohlcv(st, u[2])

\* The store after a then b is the store after b then a.
Commute(st, a, b) == Upsert(Upsert(st, a), b) = Upsert(Upsert(st, b), a)

\* C18 as stated -- any two upserts leave the same store whichever of the
\* two is applied first.
C18_AnyTwoUpsertsCommute ==
    \A a, b \in Upserts : Commute(store, a, b)

\* C18 -- two upserts leave the same store in either order when their keys
\* differ, when their values are equal, when one is an insert-or-ignore and
\* the other an insert-or-replace, or when both are insert-or-ignore and
\* the key is stored already.
C18_UpsertsCommute ==
    \A a, b \in Upserts :
        (\/ OhlcvUniqueKey(a[2]) # OhlcvUniqueKey(b[2])
         \/ a[2] = b[2]
         \/ a[1] # b[1]
         \/ (a[1] = "ignore" /\ b[1] = "ignore" /\ Conflicts(store, a[2]) # {}))
            => Commute(store, a, b)

\* Batches and live writes have been applied, minute 10 is stored, and an
\* insert-or-ignore and an insert-or-replace of minute 10 with different
\* values, the second of them changing the store, commute.
C18_Witness ==
    /\ direct.last_batch # <<>>
    /\ \E a, b \in Upserts :
           /\ a[1] = "ignore"
           /\ b[1] = "replace"
           /\ OhlcvUniqueKey(a[2]) = OhlcvUniqueKey(b[2])
           /\ a[2] # b[2]
           /\ Conflicts(store, a[2]) # {}
           /\ Upsert(store, b) # store
           /\ Commute(store, a, b)

(***************************************************************************)
(* Stopping the manager.                                                   *)
(***************************************************************************)

\* Every task that start created is over.
AllTasksOver == \A t \in TaskIds : tasks[t].pc \in {"none", "exited"}

\* C20: once running is false no task goes back to awaiting its
\* subscription, so a task handles at most the message it was awaiting when
\* the flag changed and leaves at its next loop test; and when every
\* awaited call returns or raises, all tasks of a stopped manager end.
C20_LiveCancellation ==
    /\ [][\A t \in TaskIds :
             (~ws.running /\ tasks'[t].pc = "receive")
                 => tasks[t].pc = "receive"]_vars
    /\ (~ws.running /\ ws.phase = "streaming") ~> AllTasksOver

\* The manager was stopped while its four tasks were streaming; the candle
\* task handled the message that arrived after the flag changed, and all
\* four tasks have left their loops.
C20_Witness ==
    /\ ~ws.running
    /\ ws.phase = "streaming"
    /\ \A t \in TaskIds : tasks[t].pc = "exited"
    /\ live_log.handled # None
    /\ ~live_log.handled[1].running

(***************************************************************************)
(* Runs of backfill() in an engine whose WebSocketManager is started and   *)
(* stopped: the running flag changes while the Backfiller works.           *)
(***************************************************************************)

InitCancel ==
    /\ InitDatabase
    /\ tables = InitializedTables
    /\ store \in BackfillStores
    /\ source \in BackfillSources
    /\ fetch = IdleFetch
    /\ trace = NoTrace
    /\ bf = IdleBackfill
    /\ repair_log = {}
    /\ history = <<>>
    /\ ws = NewManager("sqlite3")
    /\ tasks = [t \in TaskIds |-> NoTask]
    /\ streams = [ticker_data |-> {}, orderbook_data |-> {}, trades_stream |-> {}]
    /\ live_log = NoLiveLog
    /\ multi = IdleMulti
    /\ TraderIdle

NextCancel ==
    \/ NextBackfill
    \/ Start(TRUE, FALSE)
    \/ StartConnected
    \/ StartConnectFails
    \/ Stop

SpecCancel == InitCancel /\ [][NextCancel]_vars

\* The running flag was set and has been cleared.
Stopped == ~ws.running /\ ws.phase # "new"

\* C21: once the running flag is false again, backfill begins no further
\* _fetch_range call and _fetch_range issues no further page request.
C21_BackfillCancellation ==
    [][Stopped =>
          /\ trace'.requests # trace.requests + 1
          /\ (fetch'.pc = "loop" => fetch.pc = "loop")]_vars

(***************************************************************************)
(* One call of backfill_multiple or of populate_data on an empty store:    *)
(* every series of the list is new to the store, so each backfill is its   *)
(* phase 1 (line 132 skips phase 2).                                       *)
(***************************************************************************)

Config(symbol, timeframe, days) ==
    [symbol |-> symbol, timeframe |-> timeframe, has_days |-> TRUE,
     days |-> days]
ConfigNoDays(symbol, timeframe) ==
    [symbol |-> symbol, timeframe |-> timeframe, has_days |-> FALSE,
     days |-> None]

\* Lists of series: the timeframe "2m" has no entry in TIMEFRAME_MS.
MultiConfigs ==
    {<<>>,
     <<Config("BTC/USDT", "1m", None)>>,
     <<ConfigNoDays("BTC/USDT", "1m"), Config("ETH/USDT", "1m", None)>>,
     <<Config("BTC/USDT", "1m", Some(1)), Config("ETH/USDT", "2m", None),
       Config("ETH/USDT", "5m", None)>>}

PopulateSymbols == {<<"BTC/USDT">>, <<"BTC/USDT", "ETH/USDT">>}
PopulateTimeframes == {<<"1m">>, <<"1m", "5m">>}

MultiSources == {{}, HeldAt((NOW - 9)..(NOW - 4)), HeldAt({NOW - 10, NOW - 5})}

InitMulti ==
    /\ InitDatabase
    /\ tables = InitializedTables
    /\ store = {}
    /\ source \in MultiSources
    /\ fetch = IdleFetch
    /\ trace = NoTrace
    /\ bf = IdleBackfill
    /\ repair_log = {}
    /\ history = <<>>
    /\ LiveIdle
    /\ multi = IdleMulti
    /\ TraderIdle

NextMulti ==
    \/ \E configs \in MultiConfigs : BackfillMultipleCall(configs, NOW)
    \/ \E symbols \in PopulateSymbols, timeframes \in PopulateTimeframes,
          days \in BackfillDays :
           PopulateDataCall(symbols, timeframes, days, NOW)
    \/ MultiBackfillReturns
    \/ \E at \in {"start", "phase1"} : MultiBackfillRaises(at)
    \/ MultiReturn

SpecMulti == InitMulti /\ [][NextMulti]_vars

\* C22: the series attempted so far are the first series of the list, each
\* once and in list order, whichever of them raised; and the call ends only
\* when every series of the list has been attempted.
C22_MultiSeriesIsolation ==
    /\ multi.pc \in {"idle", "loop", "done"}
    /\ multi.attempted = SubSeq(multi.configs, 1, Len(multi.attempted))
    /\ multi.pc = "loop" => Len(multi.attempted) = multi.i - 1
    /\ multi.pc = "done" => multi.attempted = multi.configs

\* A call over three series has returned; the backfill of the first and of
\* the second series raised, the third was attempted all the same.
C22_Witness ==
    /\ multi.pc = "done"
    /\ Len(multi.configs) = 3
    /\ multi.failed = {1, 2}
    /\ multi.attempted = multi.configs

(***************************************************************************)
(* The values of the stored candles.                                       *)
(***************************************************************************)

\* C23: every stored candle has low <= open <= high, low <= close <= high
\* and volume >= 0.
C23_CandleValues ==
    \A r \in store :
        /\ r.low <= r.open /\ r.open <= r.high
        /\ r.low <= r.close /\ r.close <= r.high
        /\ r.volume >= 0

(***************************************************************************)
(* The boundary queries of a series.                                       *)
(***************************************************************************)

\* C24: get_latest_timestamp and get_earliest_timestamp return None exactly
\* when the series has no stored candle, and otherwise the greatest and the
\* least stored timestamp of the series, timestamp 0 included;
\* get_data_count returns the number of stored candles of the series.
C24_BoundaryQueries ==
    \A series \in StoreSeries :
        LET S        == {r.timestamp : r \in
                            {x \in store : <<x.exchange, x.symbol, x.timeframe>> = series}}
            latest   == get_latest_timestamp(store, series[1], series[2], series[3])
            earliest == get_earliest_timestamp(store, series[1], series[2], series[3])
        IN  /\ latest = None <=> S = {}
            /\ earliest = None <=> S = {}
            /\ S # {} => (latest = Some(Max(S)) /\ earliest = Some(Min(S)))
            /\ get_data_count(store, series[1], series[2], series[3])
                   = Cardinality({x \in store :
                         <<x.exchange, x.symbol, x.timeframe>> = series})

(***************************************************************************)
(* Repeated backfill of a series with more gaps than one find_gaps scan    *)
(* returns: one old candle, a gap of 1000 minutes, then 101 candles three  *)
(* minutes apart.                                                          *)
(***************************************************************************)

RepairStore ==
    StoredAt({NOW - 2000} \cup {NOW - 1000 + 3 * k : k \in 0..GAP_LIMIT})

\* What the exchange holds: nothing, or a candle inside the wide gap.
RepairSources == {{}, HeldAt({NOW - 1400})}

InitRepair ==
    /\ InitDatabase
    /\ store = RepairStore
    /\ source \in RepairSources
    /\ fetch = IdleFetch
    /\ trace = NoTrace
    /\ bf = IdleBackfill
    /\ repair_log = {}
    /\ history = <<>>
    /\ LiveIdle
    /\ multi = IdleMulti
    /\ TraderIdle

NextRepair ==
    \/ BackfillStart("BTC/USDT", "1m", None, NOW, MaxRuns)
    \/ BackfillPhase1Done
    \/ BackfillGapUnfillable
    \/ BackfillGapFilled
    \/ FetchReachedStart
    \/ FetchNetworkError(MaxNetErrors)
    \/ FetchExchangeError
    \/ (HonestPage(source, fetch.since, PAGE_LIMIT) = <<>> /\ FetchEmptyPage)
    \/ FetchPage(HonestPage(source, fetch.since, PAGE_LIMIT))

SpecRepair == InitRepair /\ [][NextRepair]_vars

\* Every gap of the series, whatever their number: the rows find_gaps
\* would return without its LIMIT.
SeriesGaps(st, exchange, symbol, timeframe, tf_ms) ==
    LET S == SeriesTimestamps(st, exchange, symbol, timeframe)
    IN  {<<t, Lead(S, t)[1]>> : t \in {u \in S : IsGapRow(S, u, tf_ms)}}

\* The run that has just completed found the store and the memo as they
\* are now: a further run against the same exchange repeats it.
RunChangedNothing ==
    /\ bf.pc = "done"
    /\ history # <<>>
    /\ history[Len(history)].outcome = "complete"
    /\ store = history[Len(history)].store0
    /\ unfillable = history[Len(history)].unfillable0

\* C25: repeated runs hand every gap that is not memoized as unfillable to
\* _fetch_range, however many gaps the series has: a run that changes
\* neither the store nor the memo, which every later run repeats, has handed
\* over every gap of the series that is not memoized.
C25_GapRepairProgress ==
    RunChangedNothing =>
        \A g \in SeriesGaps(store, EXCHANGE, bf.symbol, bf.timeframe, bf.tf_ms) :
            ~is_unfillable_gap(tables, unfillable, EXCHANGE, bf.symbol,
                               bf.timeframe, g[1], g[2])
                => g \in Range(history[Len(history)].gaps)

(***************************************************************************)
(* One _fetch_range invocation against an exchange that holds a candle for *)
(* every minute of a range longer than a page and answers every request    *)
(* from its holdings.  The process may stop in any state.                  *)
(***************************************************************************)

DenseSources ==
    {HeldAt(3300..5000), HeldAt(3300..4400), HeldAt(4400..5600)}
DenseWindows == {<<3000, 5000>>, <<4400, 5000>>, <<3350, 4950>>}
DenseStores == {{}, StoredAt({4600, 4601})}

InitDense ==
    /\ InitDatabase
    /\ tables = InitializedTables
    /\ store \in DenseStores
    /\ source \in DenseSources
    /\ fetch = IdleFetch
    /\ trace = NoTrace
    /\ bf = IdleBackfill
    /\ repair_log = {}
    /\ history = <<>>
    /\ LiveIdle
    /\ multi = IdleMulti
    /\ TraderIdle

NextDense ==
    \/ \E w \in DenseWindows : FetchCall(BTC1m, w)
    \/ FetchReachedStart
    \/ FetchNetworkError(MaxNetErrors)
    \/ FetchExchangeError
    \/ (HonestPage(source, fetch.since, PAGE_LIMIT) = <<>> /\ FetchEmptyPage)
    \/ FetchPage(HonestPage(source, fetch.since, PAGE_LIMIT))

SpecDense == InitDense /\ [][NextDense]_vars

\* The exchange holds a candle at every spacing from its oldest to its
\* newest.
Consecutive(T, tf_ms) == \A t \in T : t + tf_ms \in T \/ t = Max(T)
NoHoles(held, tf_ms) == Consecutive({c[1] : c \in held}, tf_ms)

\* The candles of the exchange inside the window of the invocation that the
\* series in the store does not hold.
MissingFrom(S, held, start_ts, end_ts) ==
    {t \in {c[1] : c \in held} : start_ts <= t /\ t <= end_ts /\ t \notin S}
MissingInWindow ==
    MissingFrom(SeriesTimestamps(store, fetch.exchange, fetch.symbol,
                                 fetch.timeframe),
                source, fetch.start_ts, fetch.end_ts)

EmptyPageRule(step) ==
    /\ fetch'.consecutive_empty = fetch.consecutive_empty + 1
    /\ IF fetch'.consecutive_empty = 3
       THEN fetch'.pc = "returned"
       ELSE /\ fetch'.consecutive_empty < 3
            /\ fetch'.pc = "loop"
            /\ fetch'.since = fetch.since - (step * fetch.tf_ms)

\* A non-empty page sets the count of consecutive empty pages to zero.
PageResetsEmptyCount ==
    (\E ohlcv \in Responses : FetchPage(ohlcv)) => fetch'.consecutive_empty = 0

\* C27 as stated: the third consecutive empty page ends the loop, a
\* non-empty page resets the count, and after a first or second consecutive
\* empty page the cursor is moved by one spacing unit and the loop goes on.
C27_EmptyPageRuleOneSpacing ==
    [][(FetchEmptyPage => EmptyPageRule(1)) /\ PageResetsEmptyCount]_vars

\* C27 amended: after a first or second consecutive empty page the cursor is
\* moved back by 1000 spacing units.
C27_EmptyPageRule ==
    [][(FetchEmptyPage => EmptyPageRule(EMPTY_PAGE_STEP))
          /\ PageResetsEmptyCount]_vars

\* Three empty pages in a row have ended an invocation, the cursor two
\* steps below its first value.
C27_Witness ==
    /\ fetch.pc = "returned"
    /\ fetch.consecutive_empty = 3
    /\ fetch.since = fetch.end_ts
           - ((INITIAL_LOOKBACK + 2 * EMPTY_PAGE_STEP) * fetch.tf_ms)

\* A page that the convergence check lets through.
PagePasses(ohlcv) == FetchPage(ohlcv) /\ ~Converged(fetch, ohlcv)

\* A candle of the page lies inside the window of the invocation.
SomeInWindow(ohlcv) ==
    \E i \in 1..Len(ohlcv) :
        fetch.start_ts <= ohlcv[i][1] /\ ohlcv[i][1] <= fetch.end_ts

\* What an iteration does to the count of consecutive pages without new
\* rows and to the loop: a page with a new row resets the count, a page
\* without one that counts adds one and ends the loop at three, and a page
\* that does not count leaves both as they are.
ExistingDataRule(counts) ==
    IF Cardinality(store') > Cardinality(store)
    THEN fetch'.consecutive_no_inserts = 0 /\ fetch'.pc = "loop"
    ELSE IF counts
    THEN /\ fetch'.consecutive_no_inserts = fetch.consecutive_no_inserts + 1
         /\ fetch'.pc = IF fetch'.consecutive_no_inserts = 3
                        THEN "returned" ELSE "loop"
         /\ fetch'.consecutive_no_inserts <= 3
    ELSE /\ fetch'.consecutive_no_inserts = fetch.consecutive_no_inserts
         /\ fetch'.pc = "loop"

\* C28 as stated: every non-empty page that inserts no row counts toward
\* the three that end the loop, and a page that inserts a row resets the
\* count.
C28_EveryZeroInsertPageCounts ==
    [][\A ohlcv \in Responses :
           PagePasses(ohlcv) => ExistingDataRule(TRUE)]_vars

\* C28 amended: the pages that count are those with a candle inside the
\* window; a page with none leaves the count unchanged.
C28_ExistingDataRule ==
    [][\A ohlcv \in Responses :
           PagePasses(ohlcv) => ExistingDataRule(SomeInWindow(ohlcv))]_vars

\* Three pages in a row have brought only stored candles and have ended an
\* invocation.
C28_Witness ==
    /\ fetch.pc = "returned"
    /\ fetch.consecutive_no_inserts = 3
    /\ trace.requests = 3
    /\ fetch.total_inserted = 0

\* C29: a page request that fails with a network error leaves the cursor,
\* the count of empty pages, the count of pages without new rows, the oldest
\* timestamp of the previous page and the inserted total as they were, and
\* the loop goes on: its next request uses the same cursor.
C29_TransientFailureKeepsPagination ==
    [][FetchNetworkError(MaxNetErrors) =>
          /\ fetch'.pc = "loop"
          /\ fetch'.since = fetch.since
          /\ fetch'.consecutive_empty = fetch.consecutive_empty
          /\ fetch'.consecutive_no_inserts = fetch.consecutive_no_inserts
          /\ fetch'.last_oldest_ts = fetch.last_oldest_ts
          /\ fetch'.total_inserted = fetch.total_inserted
          /\ store' = store]_vars

\* A request has failed with a network error in an invocation that has
\* inserted rows and has counted an empty page, and the loop goes on.
C29_Witness ==
    /\ trace.net_errors > 0
    /\ fetch.pc = "loop"
    /\ fetch.total_inserted > 0
    /\ fetch.consecutive_empty > 0
    /\ fetch.last_oldest_ts # None

\* The rows the invocation has inserted: the candles of the pages differ in
\* their values from the rows the store held at the start.
InsertedRows == store \ StoredBefore

\* C30: a page request that fails with an exchange error ends the loop
\* without a further request, and the invocation returns the number of rows
\* that the pages before the error inserted.
C30_PermanentFailureAborts ==
    [][/\ FetchExchangeError =>
             /\ fetch'.pc = "returned"
             /\ store' = store
             /\ fetch'.total_inserted = Cardinality(InsertedRows)
       /\ trace.exchange_error =>
             /\ fetch'.pc = "returned"
             /\ trace'.requests = trace.requests]_vars

\* An invocation has returned after an exchange error that followed pages
\* which inserted rows.
C30_Witness ==
    /\ trace.exchange_error
    /\ fetch.pc = "returned"
    /\ fetch.total_inserted > 0
    /\ fetch.total_inserted = Cardinality(InsertedRows)

\* C31: between two consecutive page requests of one _fetch_range
\* invocation lies the rate-limit pause: no request is issued while the last
\* page response, empty or not, has not been followed by that pause.
C31_RateLimitPause ==
    [][trace'.requests = trace.requests + 1 => ~trace.pause_due]_vars

\* C32: when the repair of a gap inserts no candle, backfill records the
\* gap as failed and goes on: with the _fetch_range call for the next gap
\* of the list, or, after the last gap, with its normal end.
C32_FailedGapDoesNotStopRepair ==
    [][BackfillGapUnfillable =>
          /\ bf'.failed_gaps = Append(bf.failed_gaps, bf.gaps[bf.i])
          /\ bf'.gaps = bf.gaps
          /\ IF bf.i < Len(bf.gaps)
             THEN /\ bf'.pc = "phase2"
                  /\ bf'.i = bf.i + 1
                  /\ fetch'.pc = "loop"
                  /\ fetch'.start_ts = bf.gaps[bf.i + 1][1]
                  /\ fetch'.end_ts = bf.gaps[bf.i + 1][2]
             ELSE /\ bf'.pc = "done"
                  /\ history'[Len(history')].outcome = "complete"]_vars

\* A run has completed in which every gap of a list of GAP_LIMIT gaps
\* failed and was attempted.
C32_Witness ==
    /\ bf.pc = "done"
    /\ Len(bf.gaps) = GAP_LIMIT
    /\ bf.failed_gaps = bf.gaps
    /\ {g[1] : g \in Range(bf.gaps)} \subseteq history[Len(history)].starts

\* ---------------------------------------------------------------------
\* Trade idempotence (watch_trades, _store_trade).

\* The rows of trades_stream that carry the identifier of a trade.
TradeRows(rows, trade) == {r \in rows : r.trade_id = TradeId(trade)}

\* C33: after a list of trades is delivered to watch_trades, however many
\* times it was delivered before, every trade of the list has exactly one
\* stored row, whether its identifier came from the source or was built
\* from timestamp, price and amount.
C33_TradeIdempotence ==
    [][\A trades \in TradePushes \ {None} : \A write_ok \in BOOLEAN :
          ReceiveTrades(trades, write_ok, MaxPushes)
              => \A i \in 1..Len(trades[1]) :
                     Cardinality(TradeRows(streams'.trades_stream,
                                           trades[1][i])) = 1]_vars

\* ---------------------------------------------------------------------
\* Order-book sanity (watch_order_book).

\* The levels of a side that watch_order_book looks at.
TopLevels(side) ==
    SubSeq(side, 1, IF Len(side) < ORDERBOOK_DEPTH
                    THEN Len(side) ELSE ORDERBOOK_DEPTH)

\* A stored snapshot with both sides non-empty has a spread that is not
\* negative and the mean of the two best prices as its mid price; with a
\* side empty both values are absent.
SaneSnapshot(row) ==
    IF row.bids # <<>> /\ row.asks # <<>>
    THEN /\ row.bid_ask_spread # None
         /\ row.bid_ask_spread[1] >= 0
         /\ row.mid_price # None
         /\ 2 * row.mid_price[1] = row.bids[1][1] + row.asks[1][1]
    ELSE row.bid_ask_spread = None /\ row.mid_price = None

\* The source's best ask is below its best bid.
Inverted(orderbook) ==
    /\ orderbook.bids # <<>>
    /\ orderbook.asks # <<>>
    /\ orderbook.asks[1][1] < orderbook.bids[1][1]

\* The snapshot holds the sides of the source, swapped when inverted.
SidesOf(row, orderbook) ==
    IF Inverted(orderbook)
    THEN /\ row.bids = TopLevels(orderbook.asks)
         /\ row.asks = TopLevels(orderbook.bids)
    ELSE /\ row.bids = TopLevels(orderbook.bids)
         /\ row.asks = TopLevels(orderbook.asks)

\* C34: a stored order-book snapshot with both sides non-empty has
\* bid_ask_spread >= 0 and the mean of the two best prices as mid_price;
\* the snapshot of a source whose best ask is below its best bid holds the
\* source's sides swapped; with one side empty both derived values are
\* absent.
C34_OrderBookSanity ==
    [][\A orderbook \in OrderBookPushes \ {None} :
          ReceiveOrderBook(orderbook, TRUE, MaxPushes)
              => /\ \E row \in streams'.orderbook_data :
                        SidesOf(row, orderbook[1])
                 /\ \A row \in streams'.orderbook_data : SaneSnapshot(row)]_vars

\* Two snapshots are stored: one of an inverted source, its sides swapped,
\* and one with no asks.
C34_Witness ==
    /\ \E row \in streams.orderbook_data :
           /\ row.bids = <<<<4, 3>>, <<2, 1>>>>
           /\ row.asks = <<<<6, 2>>>>
           /\ row.bid_ask_spread = Some(2)
           /\ row.mid_price = Some(5)
    /\ \E row \in streams.orderbook_data :
           row.asks = <<>> /\ row.mid_price = None

(***************************************************************************)
(* One ExecutionManager, in paper or live mode, on a DatabaseManager (as   *)
(* TradingRuntime.setup builds it, runtime.py 107-114) or on a sqlite3     *)
(* connection, given any signals the Signal constructor can be asked for.  *)
(***************************************************************************)

MaxSignals == 4

Sig(type, confidence, close_percentage) ==
    [type |-> type, confidence |-> confidence,
     close_percentage |-> close_percentage]

\* Signals of every type, with a confidence of 0.5 or 1.5 and, for
\* PARTIAL_CLOSE, no close_percentage or one of 0.0, 0.5, 1.0, 1.5.
Signals ==
    {Sig(t, c, None) : t \in {"buy", "sell", "close"}, c \in {1, 3}}
        \cup {Sig("partial_close", 1, p) :
                  p \in {None, Some(0), Some(1), Some(2), Some(3)}}

\* close prices of the candles; a candle of an untraded minute can close
\* at 0.
ClosePrices == {0, 5, 6}

InitExec ==
    /\ tables = InitializedTables
    /\ \E mode \in {"paper", "live"}, db_kind \in {"DatabaseManager", "sqlite3"} :
           execution = NewExecution(mode, db_kind)
    /\ strategy = NoStrategy
    /\ runtime = NoRuntime
    /\ unfillable = {}
    /\ direct = NoDirectCall
    /\ mark_calls = {}
    /\ store = {}
    /\ source = {}
    /\ fetch = IdleFetch
    /\ trace = NoTrace
    /\ bf = IdleBackfill
    /\ repair_log = {}
    /\ history = <<>>
    /\ LiveIdle
    /\ multi = IdleMulti

NextExec ==
    \/ \E signal \in Signals, current_price \in ClosePrices,
          order_ok \in BOOLEAN, store_ok \in BOOLEAN :
           ExecuteSignal(signal, current_price, order_ok, store_ok, MaxSignals)
    \/ \E current_price \in ClosePrices : UpdatePositionPnl(current_price)

SpecExec == InitExec /\ [][NextExec]_vars

\* A step is a call of execute_signal.
SignalExecuted == execution'.calls = execution.calls + 1

\* C35: whenever execute_signal returns False (a rejected signal, a failed
\* exchange order or a failed write of the trade), the tracked position is
\* what it was before the call.
C35_NoStateChangeOnFailedExecution ==
    [][(SignalExecuted /\ ~execution'.last[1].returned)
          => execution'.position = execution.position]_vars

\* C36: a tracked position has a quantity above zero, so that closing the
\* whole quantity leaves no tracked position.
C36_OpenPositionsNeverEmpty ==
    execution.position # None => execution.position[1].quantity > 0

\* The exchange accepted an order of the call.
OrderPlaced == execution'.orders # execution.orders

\* C37: a BUY while a position exists returns False and leaves the
\* position as it is; a CLOSE or PARTIAL_CLOSE with no position returns
\* False and leaves none; a BUY that succeeded (its order was accepted by
\* the exchange, or the call returned True) leaves a long position; a CLOSE
\* that returns True leaves no position.
C37_SinglePositionStateMachine ==
    [][SignalExecuted =>
          LET call == execution'.last[1]
              type == call.signal.type
          IN  /\ (type = "buy" /\ execution.position # None)
                     => /\ ~call.returned
                        /\ execution'.position = execution.position
              /\ (type \in {"close", "partial_close"}
                      /\ execution.position = None)
                     => /\ ~call.returned
                        /\ execution'.position = None
              /\ (type = "buy" /\ (call.returned \/ OrderPlaced))
                     => /\ execution'.position # None
                        /\ execution'.position[1].side = "long"
              /\ (type = "close" /\ call.returned)
                     => execution'.position = None]_vars

(***************************************************************************)
(* One TradingRuntime: shutdown() before run(), one run(), the signals     *)
(* that arrive while it runs, and the end of its streams, in every order.  *)
(***************************************************************************)

MaxInterrupts == 2

InitRuntime ==
    /\ tables = InitializedTables
    /\ \E components \in {"none", "no_websocket", "all"} :
           runtime = NewRuntime(components)
    /\ execution = NoExecution
    /\ strategy = NoStrategy
    /\ unfillable = {}
    /\ direct = NoDirectCall
    /\ mark_calls = {}
    /\ store = {}
    /\ source = {}
    /\ fetch = IdleFetch
    /\ trace = NoTrace
    /\ bf = IdleBackfill
    /\ repair_log = {}
    /\ history = <<>>
    /\ LiveIdle
    /\ multi = IdleMulti

NextRuntime ==
    \/ \E close_ok \in BOOLEAN : ShutdownBeforeRun(close_ok)
    \/ RunStart
    \/ \E cancelled \in BOOLEAN : StreamsEnd(cancelled)
    \/ \E close_ok \in BOOLEAN : RunFinally(close_ok)
    \/ \E close_ok \in BOOLEAN : RunStopped(close_ok)
    \/ Interrupt(MaxInterrupts)
    \/ \E k \in 1..MaxInterrupts, close_ok \in BOOLEAN : HandlerEnter(k, close_ok)
    \/ \E k \in 1..MaxInterrupts, close_ok \in BOOLEAN : HandlerStopped(k, close_ok)

SpecRuntime == InitRuntime /\ [][NextRuntime]_vars

\* C38: whatever the order of the shutdown tasks of the signal handler,
\* the end of the streams and the finally block of run(), the body of
\* shutdown is entered at most once, the websocket is stopped at most once
\* and the database is closed at most once; a shutdown before run() has
\* started changes nothing.
C38_ShutdownRunsOnce ==
    [][/\ runtime'.teardowns <= 1
       /\ runtime'.stops <= 1
       /\ runtime'.closes <= 1
       /\ runtime'.early_calls # runtime.early_calls
              => runtime' = [runtime EXCEPT !.early_calls = @ + 1]]_vars

\* run() has ended after a shutdown before it, a signal whose task did the
\* teardown while the streams ran, and a second signal whose task found
\* nothing to do; the shutdown of the finally block found nothing to do
\* either.
C38_Witness ==
    /\ runtime.run = "done"
    /\ runtime.early_calls = 1
    /\ runtime.handlers = <<"returned", "returned">>
    /\ runtime.teardowns = 1
    /\ runtime.stops = 1
    /\ runtime.closes = 1

(***************************************************************************)
(* One TradingRuntime with a YAMLStrategy of two timeframes, its history   *)
(* of the primary timeframe empty, short or at its cap, and the candles    *)
(* the websocket callback hands to _on_candle.                             *)
(***************************************************************************)

MaxCandles == 3

\* The candles of the minutes 1..n, oldest first.
WarmHistory(n) == [i \in 1..n |-> [timestamp |-> i, close |-> 5]]

HistoryLengths == {0, 1, MAX_CANDLES - 1, MAX_CANDLES}

LiveCandles ==
    {[timestamp |-> 600, close |-> 5], [timestamp |-> 601, close |-> 6]}

InitCandle ==
    /\ tables = InitializedTables
    /\ \E mode \in {"paper", "live"}, db_kind \in {"DatabaseManager", "sqlite3"} :
           execution = NewExecution(mode, db_kind)
    /\ \E n \in HistoryLengths :
           strategy = LoadedStrategy([tf \in STRATEGY_TIMEFRAMES |->
                                         IF tf = PRIMARY_TIMEFRAME
                                         THEN WarmHistory(n) ELSE <<>>])
    /\ runtime = NewRuntime("all")
    /\ unfillable = {}
    /\ direct = NoDirectCall
    /\ mark_calls = {}
    /\ store = {}
    /\ source = {}
    /\ fetch = IdleFetch
    /\ trace = NoTrace
    /\ bf = IdleBackfill
    /\ repair_log = {}
    /\ history = <<>>
    /\ LiveIdle
    /\ multi = IdleMulti

NextCandle ==
    \E candle \in LiveCandles, timeframe \in STRATEGY_TIMEFRAMES,
       decision \in {"none", "raises", "signal"},
       order_ok \in BOOLEAN, store_ok \in BOOLEAN :
        OnCandle(candle, timeframe, decision, order_ok, store_ok, MaxCandles)

SpecCandle == InitCandle /\ [][NextCandle]_vars

\* _on_candle is called with the candle and the timeframe.
CandleDelivered(candle, timeframe) ==
    \E decision \in {"none", "raises", "signal"},
       order_ok \in BOOLEAN, store_ok \in BOOLEAN :
        OnCandle(candle, timeframe, decision, order_ok, store_ok, MaxCandles)

\* C39: a candle handed to _on_candle is appended to the history of its
\* timeframe exactly once, the history keeping its last max_candles (500)
\* entries, and no history holds more than max_candles entries.
C39_OneHistoryEntryPerCandle ==
    [][\A candle \in LiveCandles, timeframe \in STRATEGY_TIMEFRAMES :
          CandleDelivered(candle, timeframe)
              => /\ strategy'.history[timeframe] =
                        LastOf(Append(strategy.history[timeframe], candle),
                               MAX_CANDLES)
                 /\ \A tf \in STRATEGY_TIMEFRAMES :
                        Len(strategy'.history[tf]) <= MAX_CANDLES]_vars

====
